---- MODULE Spec2Model ----
(***************************************************************************)
(* kubetemplate: the internal engine (internal/engine) that learns the     *)
(* resources a template depends on, renders templates from live values and *)
(* watches the learned resources for material changes.                     *)
(***************************************************************************)
EXTENDS Integers, Sequences, FiniteSets, TLC

(***************************************************************************)
(* Bounds of the model                                                     *)
(***************************************************************************)
\* longest per-informer queue of undelivered watch events
MaxQueue == 1
\* number of Close calls made over a behaviour
MaxCloseCalls == 2
\* Watchers the root package Engine makes
MaxWatchers == 2
\* capacity of the reload channel given to NewEngine
MaxReload == 1

(***************************************************************************)
(* Universe of values                                                      *)
(***************************************************************************)
Procs == {"p1", "p2"}
Namespaces == {"n1", "n2"}
Names == {"m1"}
Keys == {"k1", "k2"}
Kinds == {"ConfigMap", "Secret", "Service", "Endpoints"}

\* strings are sequences of characters
Values == {<<"a">>, <<"<">>}

\* error values
Nil == "nil"
ErrNoNamespace == "namespace not monitored (did you call Learn()?)"
ErrNotFound == "not found"
ErrDecode == "failed to decode secret value"
ErrPanic == "runtime error"

\* the nil *Namespace
NilNamespace == "<nil>"

(***************************************************************************)
(* Maps (Go map[K]V as a function with a finite domain)                    *)
(***************************************************************************)
EmptyMap == [x \in {} |-> {}]

Put(m, k, v) == [x \in (DOMAIN m) \cup {k} |-> IF x = k THEN v ELSE m[x]]

Elems(s) == {s[i] : i \in 1..Len(s)}

(***************************************************************************)
(* Monitors: interest sets                                                 *)
(***************************************************************************)
\* NewNamespace: four monitors with empty interest sets
NewNamespace ==
    [ConfigMaps |-> EmptyMap, Secrets |-> EmptyMap,
     Services |-> <<>>, Endpoints |-> <<>>]

\* an Add that starts the list of the name afresh
ConfigMapAddReplacing(keys, name, key) == Put(keys, name, <<key>>)

\* ConfigMapMonitor.Add on the keys map
ConfigMapAdd(keys, name, key) ==
    IF name \notin DOMAIN keys
    THEN Put(keys, name, <<key>>)
    ELSE IF \E i \in 1..Len(keys[name]) : keys[name][i] = key
         THEN keys
         ELSE Put(keys, name, Append(keys[name], key))

\* SecretMonitor.Add on the keys map
SecretAdd(keys, name, key) ==
    IF name \notin DOMAIN keys
    THEN Put(keys, name, <<key>>)
    ELSE IF \E i \in 1..Len(keys[name]) : keys[name][i] = key
         THEN keys
         ELSE Put(keys, name, Append(keys[name], key))

\* ServiceMonitor.Add on the keys slice
ServiceAdd(keys, name) ==
    IF \E i \in 1..Len(keys) : keys[i] = name THEN keys ELSE Append(keys, name)

\* EndpointsMonitor.Add on the keys slice
EndpointsAdd(keys, name) ==
    IF \E i \in 1..Len(keys) : keys[i] = name THEN keys ELSE Append(keys, name)

(***************************************************************************)
(* Engine: the namespace map                                               *)
(***************************************************************************)
\* Engine.namespace: the controller of a name, or nil
EngineNamespace(nsmap, name) ==
    IF name \in DOMAIN nsmap THEN name ELSE NilNamespace

\* Engine.addNamespace: the map afterwards, the pointer returned and whether
\* a Run goroutine was started.  The controller made inside the if block is
\* bound to a new variable n; the n returned is the one of the map lookup.
AddNamespace(nsmap, name) ==
    IF name \in DOMAIN nsmap
    THEN [map |-> nsmap, n |-> name, started |-> FALSE]
    ELSE [map |-> Put(nsmap, name, NewNamespace), n |-> NilNamespace,
          started |-> TRUE]

\* DataProvider.getOrCreateNamespace
GetOrCreateNamespace(nsmap, name) ==
    IF EngineNamespace(nsmap, name) # NilNamespace
    THEN [map |-> nsmap, n |-> EngineNamespace(nsmap, name), started |-> FALSE]
    ELSE AddNamespace(nsmap, name)

(***************************************************************************)
(* The control plane as the client sees it                                 *)
(***************************************************************************)
\* an object is identified by <<namespace, name>>
ObjIds == Namespaces \X Names

\* Secret data are byte strings; a byte string is written as a sequence of
\* four-character base64 quanta.  "YQ==" is the encoding of "a"; "%%%%" has
\* no character of the base64 alphabet.
B64Quanta == {"YQ==", "%%%%"}
B64Valid == {"YQ=="}
B64Decoded(q) == IF q = "YQ==" THEN <<"a">> ELSE <<>>

IPs == {"10.0.0.1", "10.0.0.2"}

\* base64.StdEncoding.Decode(dst, src): decodes quantum by quantum, writing
\* into dst, which must be long enough: an index past len(dst) is a run-time
\* panic.  Returns the number of bytes written, the error and whether it
\* panicked.
RECURSIVE DecodeFrom(_, _, _, _)
DecodeFrom(dstLen, src, i, n) ==
    IF i > Len(src) THEN [n |-> n, err |-> Nil, panic |-> FALSE]
    ELSE IF src[i] \notin B64Valid
         THEN [n |-> n, err |-> ErrDecode, panic |-> FALSE]
         ELSE IF dstLen < n + Len(B64Decoded(src[i]))
              THEN [n |-> n, err |-> Nil, panic |-> TRUE]
              ELSE DecodeFrom(dstLen, src, i + 1, n + Len(B64Decoded(src[i])))

Base64Decode(dst, src) == DecodeFrom(Len(dst), src, 1, 0)

\* html/template escapes the text of every value it writes
HTMLEscapeChar(c) == IF c = "<" THEN <<"&lt;">> ELSE <<c>>

RECURSIVE HTMLEscape(_)
HTMLEscape(s) ==
    IF s = <<>> THEN <<>> ELSE HTMLEscapeChar(Head(s)) \o HTMLEscape(Tail(s))

RECURSIVE Flatten(_)
Flatten(ss) == IF ss = <<>> THEN <<>> ELSE Head(ss) \o Flatten(Tail(ss))

(***************************************************************************)
(* DataProvider: the accessors bound into template execution.  Each        *)
(* returns the namespace map afterwards, the value and error returned, and *)
(* whether it started the Run goroutine of a new namespace.  A run-time    *)
(* panic inside an accessor unwinds to the template executor, which turns  *)
(* it into the error of the execution.                                     *)
(***************************************************************************)
Result(map, val, err, started) ==
    [map |-> map, val |-> val, err |-> err, started |-> started]

\* DataProvider.ConfigMap
ConfigMap(learning, nsmap, api, name, namespace, key) ==
    LET g == GetOrCreateNamespace(nsmap, namespace)
    IN  IF learning /\ g.n = NilNamespace
        THEN Result(g.map, <<>>, ErrPanic, g.started)
        ELSE LET m == IF learning
                      THEN [g.map EXCEPT ![namespace].ConfigMaps =
                                            ConfigMapAdd(@, name, key)]
                      ELSE nsmap
             IN  IF EngineNamespace(m, namespace) = NilNamespace
                 THEN Result(m, <<>>, ErrNoNamespace, FALSE)
                 ELSE IF <<namespace, name>> \notin DOMAIN api.ConfigMaps
                 THEN Result(m, <<>>, ErrNotFound, FALSE)
                 ELSE IF key \notin DOMAIN api.ConfigMaps[<<namespace, name>>]
                 THEN Result(m, <<>>, Nil, FALSE)
                 ELSE Result(m, api.ConfigMaps[<<namespace, name>>][key], Nil,
                             FALSE)

\* a lookup that reports a missing key as an error
SecretBinaryKeyError(learning, nsmap, api, name, namespace, key) ==
    IF namespace \in DOMAIN nsmap /\ <<namespace, name>> \in DOMAIN api.Secrets
       /\ key \in DOMAIN api.Secrets[<<namespace, name>>]
    THEN [map |-> nsmap, val |-> api.Secrets[<<namespace, name>>][key],
          err |-> Nil, started |-> FALSE]
    ELSE [map |-> nsmap, val |-> <<>>, err |-> ErrNotFound, started |-> FALSE]

\* DataProvider.SecretBinary
SecretBinary(learning, nsmap, api, name, namespace, key) ==
    LET g == GetOrCreateNamespace(nsmap, namespace)
    IN  IF learning /\ g.n = NilNamespace
        THEN Result(g.map, <<>>, ErrPanic, g.started)
        ELSE LET m == IF learning
                      THEN [g.map EXCEPT ![namespace].Secrets =
                                            SecretAdd(@, name, key)]
                      ELSE nsmap
             IN  IF EngineNamespace(m, namespace) = NilNamespace
                 THEN Result(m, <<>>, ErrNoNamespace, FALSE)
                 ELSE IF <<namespace, name>> \notin DOMAIN api.Secrets
                 THEN Result(m, <<>>, ErrNotFound, FALSE)
                 ELSE IF key \notin DOMAIN api.Secrets[<<namespace, name>>]
                 THEN Result(m, <<>>, Nil, FALSE)
                 ELSE Result(m, api.Secrets[<<namespace, name>>][key], Nil,
                             FALSE)

\* DataProvider.Secret: data is declared and never allocated, so the
\* decoder is handed a nil destination and string(data) is empty
Secret(learning, nsmap, api, name, namespace, key) ==
    LET b == SecretBinary(learning, nsmap, api, name, namespace, key)
        data == <<>>
        d == Base64Decode(data, b.val)
    IN  IF b.err # Nil THEN Result(b.map, <<>>, b.err, b.started)
        ELSE IF d.panic THEN Result(b.map, <<>>, ErrPanic, b.started)
        ELSE IF d.err # Nil THEN Result(b.map, <<>>, ErrDecode, b.started)
        ELSE Result(b.map, data, Nil, b.started)

\* the nil *v1.Service and *v1.Endpoints
NilObject == [nil |-> TRUE]

\* an accessor that registers the name in either mode
ServiceRegistersAlways(learning, nsmap, api, name, namespace) ==
    LET g == GetOrCreateNamespace(nsmap, namespace)
    IN  IF g.n = NilNamespace
        THEN Result(g.map, NilObject, ErrPanic, g.started)
        ELSE LET m == [g.map EXCEPT ![namespace].Services = ServiceAdd(@, name)]
             IN  IF <<namespace, name>> \notin DOMAIN api.Services
                 THEN Result(m, NilObject, ErrNotFound, FALSE)
                 ELSE Result(m, api.Services[<<namespace, name>>], Nil, FALSE)

\* DataProvider.Service
Service(learning, nsmap, api, name, namespace) ==
    LET g == GetOrCreateNamespace(nsmap, namespace)
    IN  IF learning /\ g.n = NilNamespace
        THEN Result(g.map, NilObject, ErrPanic, g.started)
        ELSE LET m == IF learning
                      THEN [g.map EXCEPT ![namespace].Services =
                                            ServiceAdd(@, name)]
                      ELSE nsmap
             IN  IF EngineNamespace(m, namespace) = NilNamespace
                 THEN Result(m, NilObject, ErrNoNamespace, FALSE)
                 ELSE IF <<namespace, name>> \notin DOMAIN api.Services
                 THEN Result(m, NilObject, ErrNotFound, FALSE)
                 ELSE Result(m, api.Services[<<namespace, name>>], Nil, FALSE)

\* DataProvider.ServiceIP
ServiceIP(learning, nsmap, api, name, namespace) ==
    LET s == Service(learning, nsmap, api, name, namespace)
    IN  IF s.err = ErrPanic THEN Result(s.map, <<>>, ErrPanic, s.started)
        ELSE IF s.err # Nil THEN Result(s.map, <<>>, Nil, s.started)
        ELSE Result(s.map, <<s.val.ClusterIP>>, Nil, s.started)

\* DataProvider.Endpoints
Endpoints(learning, nsmap, api, name, namespace) ==
    LET g == GetOrCreateNamespace(nsmap, namespace)
    IN  IF learning /\ g.n = NilNamespace
        THEN Result(g.map, NilObject, ErrPanic, g.started)
        ELSE LET m == IF learning
                      THEN [g.map EXCEPT ![namespace].Endpoints =
                                            EndpointsAdd(@, name)]
                      ELSE nsmap
             IN  IF EngineNamespace(m, namespace) = NilNamespace
                 THEN Result(m, NilObject, ErrNoNamespace, FALSE)
                 ELSE IF <<namespace, name>> \notin DOMAIN api.Endpoints
                 THEN Result(m, NilObject, ErrNotFound, FALSE)
                 ELSE Result(m, api.Endpoints[<<namespace, name>>], Nil, FALSE)

\* the addresses of all subsets, in the reported order
SubsetIPs(ep) == Flatten([i \in 1..Len(ep.Subsets) |-> ep.Subsets[i].Addresses])

\* DataProvider.EndpointIPs
EndpointIPs(learning, nsmap, api, name, namespace) ==
    LET eps == Endpoints(learning, nsmap, api, name, namespace)
    IN  IF eps.err # Nil THEN Result(eps.map, <<>>, eps.err, eps.started)
        ELSE Result(eps.map, SubsetIPs(eps.val), Nil, eps.started)

(***************************************************************************)
(* Templates.  A template is a sequence of references; a reference is one  *)
(* accessor call written in the documented form for its accessor:          *)
(*   {{.ConfigMap name ns key}}   {{.Secret name ns key}}                  *)
(*   {{printf "%s" (.SecretBinary name ns key)}}                           *)
(*   {{with .Service name ns}}{{.Spec.ClusterIP}}{{end}}                   *)
(*   {{.ServiceIP name ns}}                                                *)
(*   {{with .Endpoints name ns}}{{range .Subsets}}{{range .Addresses}}     *)
(*       {{.IP}}{{end}}{{end}}{{end}}                                      *)
(*   {{range .EndpointIPs name ns}}{{.}}{{end}}                            *)
(***************************************************************************)
Accessors == {"ConfigMap", "Secret", "SecretBinary", "Service", "ServiceIP",
              "Endpoints", "EndpointIPs"}

Ref(acc, name, ns, key) == [acc |-> acc, name |-> name, ns |-> ns, key |-> key]

\* one accessor call of a template execution
Call(learning, nsmap, api, r) ==
    CASE r.acc = "ConfigMap" -> ConfigMap(learning, nsmap, api, r.name, r.ns, r.key)
      [] r.acc = "Secret" -> Secret(learning, nsmap, api, r.name, r.ns, r.key)
      [] r.acc = "SecretBinary" ->
              SecretBinary(learning, nsmap, api, r.name, r.ns, r.key)
      [] r.acc = "Service" -> Service(learning, nsmap, api, r.name, r.ns)
      [] r.acc = "ServiceIP" -> ServiceIP(learning, nsmap, api, r.name, r.ns)
      [] r.acc = "Endpoints" -> Endpoints(learning, nsmap, api, r.name, r.ns)
      [] OTHER -> EndpointIPs(learning, nsmap, api, r.name, r.ns)

\* the text a reference's value is written as by the template
Text(r, val) ==
    CASE r.acc \in {"ConfigMap", "Secret", "ServiceIP", "EndpointIPs"} ->
              HTMLEscape(val)
      [] r.acc = "SecretBinary" -> HTMLEscape(val)
      [] r.acc = "Service" -> HTMLEscape(<<val.ClusterIP>>)
      [] OTHER -> HTMLEscape(SubsetIPs(val))

(***************************************************************************)
(* Watch events and the monitors' handlers                                 *)
(***************************************************************************)
\* an object as a watch event carries it
Object(id, data) == [ns |-> id[1], name |-> id[2], data |-> data]

AddEvent(obj) == [type |-> "add", old |-> obj, new |-> obj]
UpdateEvent(old, new) == [type |-> "update", old |-> old, new |-> new]
DeleteEvent(obj) == [type |-> "delete", old |-> obj, new |-> obj]

\* ConfigMapMonitor.Filter
ConfigMapFilter(keys, obj) == \E k \in DOMAIN keys : obj.name = k

\* a handler that compares the whole data of the two objects
ConfigMapKeysLoopWholeData(interestingKeys, i, old, cur) ==
    old.data # cur.data

\* the loop over the interesting keys of ConfigMapMonitor.OnUpdate, from the
\* i-th key on: TRUE iff triggerChange is called.  The value of the key in
\* the new object is read without its presence flag, so the second test of
\* ok repeats the first and an absent key reads as the empty string.
RECURSIVE ConfigMapKeysLoop(_, _, _, _)
ConfigMapKeysLoop(interestingKeys, i, old, cur) ==
    IF i > Len(interestingKeys) THEN FALSE
    ELSE LET k == interestingKeys[i]
             ok == k \in DOMAIN old.data
             a == IF ok THEN old.data[k] ELSE <<>>
             b == IF k \in DOMAIN cur.data THEN cur.data[k] ELSE <<>>
         IN  IF ~ok THEN TRUE
             ELSE IF ~ok THEN TRUE
             ELSE IF a # b THEN TRUE
             ELSE ConfigMapKeysLoop(interestingKeys, i + 1, old, cur)

\* ConfigMapMonitor.OnUpdate: TRUE iff triggerChange is called
ConfigMapOnUpdate(keys, old, cur) ==
    IF cur.name \notin DOMAIN keys THEN FALSE
    ELSE ConfigMapKeysLoop(keys[cur.name], 1, old, cur)

\* cache.FilteringResourceEventHandler in front of the ConfigMap monitor:
\* TRUE iff the event makes the monitor call triggerChange
ConfigMapHandle(keys, ev) ==
    CASE ev.type = "add" -> ConfigMapFilter(keys, ev.new)
      [] ev.type = "delete" -> ConfigMapFilter(keys, ev.old)
      [] OTHER ->
           LET newer == ConfigMapFilter(keys, ev.new)
               older == ConfigMapFilter(keys, ev.old)
           IN  CASE newer /\ older -> ConfigMapOnUpdate(keys, ev.old, ev.new)
                 [] newer /\ ~older -> TRUE
                 [] ~newer /\ older -> TRUE
                 [] OTHER -> FALSE

\* a handler that passes accepted updates on and drops additions and
\* deletions
FilteringHandleUpdatesOnly(type, older, newer, onUpdate) ==
    type = "update" /\ newer /\ older /\ onUpdate

\* cache.FilteringResourceEventHandler with the results of the filter on the
\* old and the new object: an update whose objects are both accepted goes to
\* OnUpdate, one that enters or leaves the filter goes to OnAdd or OnDelete;
\* TRUE iff the handler behind it calls triggerChange
FilteringHandle(type, older, newer, onUpdate) ==
    CASE type = "add" -> newer
      [] type = "delete" -> older
      [] OTHER -> CASE newer /\ older -> onUpdate
                    [] newer /\ ~older -> TRUE
                    [] ~newer /\ older -> TRUE
                    [] OTHER -> FALSE

\* SecretMonitor.Filter
SecretFilter(keys, obj) == \E k \in DOMAIN keys : obj.name = k

\* a loop that looks at the first interesting key only
SecretKeysLoopFirstKey(interestingKeys, i, old, cur) ==
    /\ i <= Len(interestingKeys)
    /\ \/ interestingKeys[i] \notin DOMAIN old.data
       \/ interestingKeys[i] \notin DOMAIN cur.data
       \/ old.data[interestingKeys[i]] # cur.data[interestingKeys[i]]

\* the loop over the interesting keys of SecretMonitor.OnUpdate, from the
\* i-th key on: TRUE iff triggerChange is called
RECURSIVE SecretKeysLoop(_, _, _, _)
SecretKeysLoop(interestingKeys, i, old, cur) ==
    IF i > Len(interestingKeys) THEN FALSE
    ELSE LET k == interestingKeys[i]
         IN  IF k \notin DOMAIN old.data THEN TRUE
             ELSE IF k \notin DOMAIN cur.data THEN TRUE
             ELSE IF old.data[k] # cur.data[k] THEN TRUE
             ELSE SecretKeysLoop(interestingKeys, i + 1, old, cur)

\* SecretMonitor.OnUpdate: TRUE iff triggerChange is called
SecretOnUpdate(keys, old, cur) ==
    IF cur.name \notin DOMAIN keys THEN FALSE
    ELSE SecretKeysLoop(keys[cur.name], 1, old, cur)

SecretHandle(keys, ev) ==
    FilteringHandle(ev.type, SecretFilter(keys, ev.old),
                    SecretFilter(keys, ev.new),
                    SecretOnUpdate(keys, ev.old, ev.new))

\* a filter that accepts every object
ServiceFilterAny(keys, obj) == TRUE

\* ServiceMonitor.Filter
ServiceFilter(keys, obj) == \E i \in 1..Len(keys) : obj.name = keys[i]

\* ServiceSpec.Marshal: the fields of the specification in the order of
\* their field numbers, each with its tag
SpecMarshal(spec) == <<"clusterIP", spec.ClusterIP>>

\* a handler that compares the two objects as a whole
ServiceOnUpdateWholeObject(old, cur) == old.data # cur.data

\* ServiceMonitor.OnUpdate: TRUE iff triggerChange is called
ServiceOnUpdate(old, cur) == SpecMarshal(old.data) # SpecMarshal(cur.data)

ServiceHandle(keys, ev) ==
    FilteringHandle(ev.type, ServiceFilter(keys, ev.old),
                    ServiceFilter(keys, ev.new),
                    ServiceOnUpdate(ev.old, ev.new))

\* EndpointsMonitor.Filter
EndpointsFilter(keys, obj) == \E i \in 1..Len(keys) : obj.name = keys[i]

\* A string is written as the sequence of its characters.  The characters
\* in use, in the order of their byte values
Alphabet == <<".", "0", "1", "2", "3", "4", "5", "6", "7", "8", "9", "s">>

CharRank(c) == CHOOSE i \in 1..Len(Alphabet) : Alphabet[i] = c

\* the order of Go strings: bytewise, a proper prefix first
RECURSIVE StringLess(_, _)
StringLess(a, b) ==
    IF b = <<>> THEN FALSE
    ELSE IF a = <<>> THEN TRUE
    ELSE IF Head(a) # Head(b) THEN CharRank(Head(a)) < CharRank(Head(b))
    ELSE StringLess(Tail(a), Tail(b))

\* sort.Strings
RECURSIVE InsertString(_, _)
InsertString(sorted, x) ==
    IF sorted = <<>> THEN <<x>>
    ELSE IF StringLess(x, Head(sorted)) THEN <<x>> \o sorted
    ELSE <<Head(sorted)>> \o InsertString(Tail(sorted), x)

RECURSIVE SortStrings(_)
SortStrings(ss) ==
    IF ss = <<>> THEN <<>>
    ELSE InsertString(SortStrings(Tail(ss)), Head(ss))

\* strconv.Itoa of a number that is not negative
RECURSIVE Itoa(_)
Itoa(n) ==
    IF n < 10 THEN <<Alphabet[n + 2]>>
    ELSE Itoa(n \div 10) \o <<Alphabet[(n % 10) + 2]>>

\* the port strings and the addresses that endpointsSubsetHash collects,
\* subset by subset
SubsetPorts(ss) == [i \in 1..Len(ss.Ports) |->
                       ss.Ports[i].Name \o Itoa(ss.Ports[i].Port)]

CollectPorts(ep) ==
    Flatten([i \in 1..Len(ep.Subsets) |-> SubsetPorts(ep.Subsets[i])])

CollectAddrs(ep) ==
    Flatten([i \in 1..Len(ep.Subsets) |-> ep.Subsets[i].Addresses])

\* a digest of the strings as they were collected, not sorted
EndpointsSubsetHashUnsorted(ep) ==
    Flatten(CollectPorts(ep)) \o Flatten(CollectAddrs(ep))

\* endpointsSubsetHash.  The digest is represented by the bytes written to
\* the hash: the SHA-256 of two byte strings is taken to be equal only when
\* the byte strings are.
EndpointsSubsetHash(ep) ==
    Flatten(SortStrings(CollectPorts(ep))) \o Flatten(SortStrings(CollectAddrs(ep)))

\* EndpointsMonitor.OnUpdate: TRUE iff triggerChange is called
EndpointsOnUpdate(old, cur) ==
    EndpointsSubsetHash(old.data) # EndpointsSubsetHash(cur.data)

EndpointsHandle(keys, ev) ==
    FilteringHandle(ev.type, EndpointsFilter(keys, ev.old),
                    EndpointsFilter(keys, ev.new),
                    EndpointsOnUpdate(ev.old, ev.new))

\* a send that queues every signal
TriggerChangeUnbounded(ch) == ch + 1

\* a send that finds no receiver and drops the signal
TriggerChangeDropped(ch) == ch

\* baseMonitor.triggerChange: a non-blocking send on the changes channel of
\* capacity 1
TriggerChange(ch) == IF ch < 1 THEN ch + 1 ELSE ch

(***************************************************************************)
(* Engine.Close                                                            *)
(***************************************************************************)
\* close(e.stop) without the Once
EngineCloseEveryTime(once, closed, closes) ==
    [once |-> TRUE, closed |-> TRUE, closes |-> closes + 1,
     err |-> IF closed THEN ErrPanic ELSE Nil]

\* close(e.stop) under stopFunc (a sync.Once): the Once flag, the state of
\* the stop channel, how many times it was closed, and the call's outcome
\* (closing a closed channel panics)
EngineClose(once, closed, closes) ==
    IF once
    THEN [once |-> TRUE, closed |-> closed, closes |-> closes, err |-> Nil]
    ELSE [once |-> TRUE, closed |-> TRUE, closes |-> closes + 1,
          err |-> IF closed THEN ErrPanic ELSE Nil]

(***************************************************************************)
(* State                                                                   *)
(***************************************************************************)
Informers == Namespaces \X Kinds

VARIABLES
    namespaces,   \* Engine.namespaces: name -> the four monitors' interest sets
    api,          \* the objects of the control plane, per kind
    changes,      \* number of signals buffered in Engine.changes (capacity 1)
    stop,         \* TRUE iff Engine.stop is closed
    stopFunc,     \* TRUE iff Engine.stopFunc (sync.Once) has run
    stopCloses,   \* number of times close(e.stop) was executed
    closeCalls,   \* number of Close calls made
    closeErr,     \* outcome of the last Close call
    learning,     \* Engine.learning
    learnMutex,   \* Engine.learnMutex: writer announced, number of readers
    loop,         \* per informer: none, starting, running, exited
    run,          \* per namespace: Namespace.Run is none, running, returned
    evq,          \* per informer: watch events not yet handled
    handled,      \* the handler invocation that led to this state, if any
    learned,      \* templates for which a Learn call has returned
    pc,           \* per caller: where it is in its call
    tmpl,         \* per caller: the template of its Learn or Render
    pos,          \* per caller: index of the next reference to execute
    out,          \* per caller: the text written to the output so far
    err,          \* per caller: the error its call returns
    ret,          \* per caller: value and error of its last accessor call
    ctx,          \* per caller: TRUE iff the context of its Wait is done
    watchers,     \* root package Engine.watchers: the registered Watchers
    watcher,      \* the Watchers made so far, with their event goroutines
    reload,       \* root package Engine.reload: the values in the channel
    adding        \* per caller: where it is in its AddWatched call

engineVars == <<namespaces, changes, learning, learnMutex, learned>>
closeVars == <<stop, stopFunc, stopCloses, closeCalls, closeErr>>
watchVars == <<loop, evq, run>>
NoEvent == [n |-> NilNamespace]
procVars == <<pc, tmpl, pos, out, err, ret, ctx>>
rootVars == <<watchers, watcher, reload, adding>>
vars == <<engineVars, closeVars, watchVars, procVars, api, handled, rootVars>>

NoRet == [val |-> <<>>, err |-> Nil]

EmptyAPI == [ConfigMaps |-> EmptyMap, Secrets |-> EmptyMap,
             Services |-> EmptyMap, Endpoints |-> EmptyMap]

\* the state right after New
InitEngine ==
    /\ namespaces = EmptyMap
    /\ changes = 0
    /\ stop = FALSE
    /\ stopFunc = FALSE
    /\ stopCloses = 0
    /\ closeCalls = 0
    /\ closeErr = Nil
    /\ learning = FALSE
    /\ learnMutex = [w |-> FALSE, readers |-> 0]
    /\ loop = [inf \in Informers |-> "none"]
    /\ run = [n \in Namespaces |-> "none"]
    /\ evq = [inf \in Informers |-> <<>>]
    /\ handled = NoEvent
    /\ learned = {}
    /\ pc = [p \in Procs |-> "idle"]
    /\ tmpl = [p \in Procs |-> <<>>]
    /\ pos = [p \in Procs |-> 0]
    /\ out = [p \in Procs |-> <<>>]
    /\ err = [p \in Procs |-> Nil]
    /\ ret = [p \in Procs |-> NoRet]
    /\ ctx = [p \in Procs |-> FALSE]

\* a caller that is in no AddWatched call
NotAdding == [at |-> "idle"]

\* NewEngine of the root package with the reload channel it is given: no
\* Watcher is registered and none has been made
InitRoot(reloadChan) ==
    /\ watchers = <<>>
    /\ watcher = <<>>
    /\ reload = reloadChan
    /\ adding = [p \in Procs |-> NotAdding]

(***************************************************************************)
(* Engine.Learn                                                            *)
(***************************************************************************)
\* a caller enters Learn and queues for the writer side of learnMutex
LearnCall(p, T) ==
    /\ pc[p] = "idle"
    /\ pc' = [pc EXCEPT ![p] = "learn_w"]
    /\ tmpl' = [tmpl EXCEPT ![p] = T]
    /\ handled' = NoEvent
    /\ UNCHANGED rootVars
    /\ UNCHANGED <<engineVars, closeVars, watchVars, api, pos, out, err, ret, ctx>>

\* RWMutex.Lock, first half: the caller is the one pending writer; from now
\* on new readers block
LearnAnnounce(p) ==
    /\ pc[p] = "learn_w"
    /\ ~learnMutex.w
    /\ learnMutex' = [learnMutex EXCEPT !.w = TRUE]
    /\ pc' = [pc EXCEPT ![p] = "learn_lock"]
    /\ handled' = NoEvent
    /\ UNCHANGED rootVars
    /\ UNCHANGED <<namespaces, changes, learning, learned, closeVars, watchVars,
                   api, tmpl, pos, out, err, ret, ctx>>

\* RWMutex.Lock, second half: the active readers have left; e.learning = true
LearnAcquire(p) ==
    /\ pc[p] = "learn_lock"
    /\ learnMutex.readers = 0
    /\ learning' = TRUE
    /\ pc' = [pc EXCEPT ![p] = "learn"]
    /\ pos' = [pos EXCEPT ![p] = 1]
    /\ handled' = NoEvent
    /\ UNCHANGED rootVars
    /\ UNCHANGED <<namespaces, changes, learnMutex, learned, closeVars,
                   watchVars, api, tmpl, out, err, ret, ctx>>

\* a start that restarts the loops of every namespace
StartLoopsEveryNamespace(lp, started, ns) ==
    IF started THEN [inf \in Informers |-> "starting"] ELSE lp

\* the loops of a namespace whose Run goroutine was just started
StartLoops(lp, started, ns) ==
    IF started
    THEN [inf \in Informers |-> IF inf[1] = ns THEN "starting" ELSE lp[inf]]
    ELSE lp

\* go n.Run(e.stop) of a namespace just created
StartRun(rn, started, ns) ==
    IF started
    THEN [n \in DOMAIN rn |-> IF n = ns THEN "running" ELSE rn[n]]
    ELSE rn

\* the callers blocked in RLock
Blocked == {q \in Procs : pc[q] = "render_blocked"}

\* one reference of the template executed in learning mode.  The execution
\* ends at the first error or after the last reference; the deferred calls
\* then reset e.learning and unlock, which admits the blocked readers.
LearnStep(p) ==
    /\ pc[p] = "learn"
    /\ LET T == tmpl[p]
           r == T[pos[p]]
           c == Call(TRUE, namespaces, api, r)
           finished == c.err # Nil \/ pos[p] = Len(T)
       IN  /\ namespaces' = c.map
           /\ loop' = StartLoops(loop, c.started, r.ns)
           /\ run' = StartRun(run, c.started, r.ns)
           /\ ret' = [ret EXCEPT ![p] = [val |-> c.val, err |-> c.err]]
           /\ err' = [err EXCEPT ![p] = c.err]
           /\ IF finished
              THEN /\ learning' = FALSE
                   /\ learnMutex' = [w |-> FALSE, readers |-> Cardinality(Blocked)]
                   /\ pc' = [q \in Procs |->
                               IF q = p THEN "learn_done"
                               ELSE IF q \in Blocked THEN "render" ELSE pc[q]]
                   /\ pos' = [q \in Procs |->
                               IF q \in Blocked THEN 1 ELSE pos[q]]
                   /\ learned' = learned \cup {T}
              ELSE /\ pos' = [pos EXCEPT ![p] = @ + 1]
                   /\ UNCHANGED <<learning, learnMutex, pc, learned>>
    /\ handled' = NoEvent
    /\ UNCHANGED rootVars
    /\ UNCHANGED <<changes, closeVars, evq, api, tmpl, out, ctx>>

(***************************************************************************)
(* Engine.Render                                                           *)
(***************************************************************************)
\* a read lock that does not look at the writer
RLockGrantedAnyway(mu) == TRUE

\* RWMutex.RLock: granted at once unless a writer is pending or active
RLockGranted(mu) == ~mu.w

RenderCall(p, T) ==
    /\ pc[p] = "idle"
    /\ tmpl' = [tmpl EXCEPT ![p] = T]
    /\ IF RLockGranted(learnMutex)
       THEN /\ learnMutex' = [learnMutex EXCEPT !.readers = @ + 1]
            /\ pc' = [pc EXCEPT ![p] = "render"]
            /\ pos' = [pos EXCEPT ![p] = 1]
       ELSE /\ pc' = [pc EXCEPT ![p] = "render_blocked"]
            /\ UNCHANGED <<learnMutex, pos>>
    /\ handled' = NoEvent
    /\ UNCHANGED rootVars
    /\ UNCHANGED <<namespaces, changes, learning, learned, closeVars, watchVars,
                   api, out, err, ret, ctx>>

\* one reference of the template executed in rendering mode; the value is
\* written to the output.  The execution ends at the first error or after
\* the last reference, and the deferred RUnlock runs.
RenderStep(p) ==
    /\ pc[p] = "render"
    /\ LET T == tmpl[p]
           r == T[pos[p]]
           c == Call(FALSE, namespaces, api, r)
           finished == c.err # Nil \/ pos[p] = Len(T)
       IN  /\ namespaces' = c.map
           /\ loop' = StartLoops(loop, c.started, r.ns)
           /\ run' = StartRun(run, c.started, r.ns)
           /\ ret' = [ret EXCEPT ![p] = [val |-> c.val, err |-> c.err]]
           /\ err' = [err EXCEPT ![p] = c.err]
           /\ out' = [out EXCEPT ![p] =
                        IF c.err = Nil THEN @ \o Text(r, c.val) ELSE @]
           /\ IF finished
              THEN /\ learnMutex' = [learnMutex EXCEPT !.readers = @ - 1]
                   /\ pc' = [pc EXCEPT ![p] = "render_done"]
                   /\ UNCHANGED pos
              ELSE /\ pos' = [pos EXCEPT ![p] = @ + 1]
                   /\ UNCHANGED <<learnMutex, pc>>
    /\ handled' = NoEvent
    /\ UNCHANGED rootVars
    /\ UNCHANGED <<changes, learning, learned, closeVars, evq, api, tmpl, ctx>>

\* the caller takes the result of its call and is free for the next one
Return(p) ==
    /\ pc[p] \in {"learn_done", "render_done", "wait_done"}
    /\ pc' = [pc EXCEPT ![p] = "idle"]
    /\ tmpl' = [tmpl EXCEPT ![p] = <<>>]
    /\ pos' = [pos EXCEPT ![p] = 0]
    /\ out' = [out EXCEPT ![p] = <<>>]
    /\ err' = [err EXCEPT ![p] = Nil]
    /\ ret' = [ret EXCEPT ![p] = NoRet]
    /\ ctx' = [ctx EXCEPT ![p] = FALSE]
    /\ handled' = NoEvent
    /\ UNCHANGED rootVars
    /\ UNCHANGED <<engineVars, closeVars, watchVars, api>>

(***************************************************************************)
(* Engine.Wait                                                             *)
(***************************************************************************)
\* a caller enters Wait with a context that is already done or not
WaitCall(p, done) ==
    /\ pc[p] = "idle"
    /\ pc' = [pc EXCEPT ![p] = "wait"]
    /\ ctx' = [ctx EXCEPT ![p] = done]
    /\ handled' = NoEvent
    /\ UNCHANGED rootVars
    /\ UNCHANGED <<engineVars, closeVars, watchVars, api, tmpl, pos, out, err, ret>>

\* the context of a blocked Wait is cancelled
CtxCancel(p) ==
    /\ pc[p] = "wait"
    /\ ~ctx[p]
    /\ ctx' = [ctx EXCEPT ![p] = TRUE]
    /\ handled' = NoEvent
    /\ UNCHANGED rootVars
    /\ UNCHANGED <<engineVars, closeVars, watchVars, api, pc, tmpl, pos, out, err, ret>>

\* a Wait that returns without a signal in the queue
WaitSignalSpurious(p) ==
    /\ pc[p] = "wait"
    /\ pc' = [pc EXCEPT ![p] = "wait_done"]
    /\ ret' = [ret EXCEPT ![p] = [val |-> <<"signal">>, err |-> Nil]]
    /\ handled' = NoEvent
    /\ UNCHANGED rootVars
    /\ UNCHANGED <<engineVars, closeVars, watchVars, api, tmpl, pos, out, err, ctx>>

\* select case <-e.changes
WaitSignal(p) ==
    /\ pc[p] = "wait"
    /\ changes > 0
    /\ changes' = changes - 1
    /\ pc' = [pc EXCEPT ![p] = "wait_done"]
    /\ ret' = [ret EXCEPT ![p] = [val |-> <<"signal">>, err |-> Nil]]
    /\ handled' = NoEvent
    /\ UNCHANGED rootVars
    /\ UNCHANGED <<namespaces, learning, learnMutex, learned, closeVars,
                   watchVars, api, tmpl, pos, out, err, ctx>>

\* select case <-ctx.Done()
WaitCancel(p) ==
    /\ pc[p] = "wait"
    /\ ctx[p]
    /\ pc' = [pc EXCEPT ![p] = "wait_done"]
    /\ ret' = [ret EXCEPT ![p] = [val |-> <<"cancel">>, err |-> Nil]]
    /\ handled' = NoEvent
    /\ UNCHANGED rootVars
    /\ UNCHANGED <<engineVars, closeVars, watchVars, api, tmpl, pos, out, err, ctx>>

(***************************************************************************)
(* Engine.Close, called by a caller that is in no other call               *)
(***************************************************************************)
Close(p) ==
    /\ pc[p] = "idle"
    /\ closeCalls < MaxCloseCalls
    /\ LET c == EngineClose(stopFunc, stop, stopCloses)
       IN  /\ stopFunc' = c.once
           /\ stop' = c.closed
           /\ stopCloses' = c.closes
           /\ closeErr' = c.err
    /\ closeCalls' = closeCalls + 1
    /\ handled' = NoEvent
    /\ UNCHANGED rootVars
    /\ UNCHANGED <<engineVars, watchVars, procVars, api>>

(***************************************************************************)
(* The control plane and the informers                                     *)
(***************************************************************************)
\* the ConfigMap informers that are delivering events
RunningCM == {inf \in Informers : inf[2] = "ConfigMap" /\ loop[inf] = "running"}

\* every running informer of the kind is sent the event
Enqueue(q, infs, ev) ==
    [inf \in Informers |-> IF inf \in infs THEN Append(q[inf], ev) ELSE q[inf]]

\* a ConfigMap is created or its data replaced
ApplyConfigMap(id, data) ==
    /\ \A inf \in RunningCM : Len(evq[inf]) < MaxQueue
    /\ id \in DOMAIN api.ConfigMaps => api.ConfigMaps[id] # data
    /\ api' = [api EXCEPT !.ConfigMaps = Put(@, id, data)]
    /\ evq' = Enqueue(evq, RunningCM,
                      IF id \in DOMAIN api.ConfigMaps
                      THEN UpdateEvent(Object(id, api.ConfigMaps[id]),
                                       Object(id, data))
                      ELSE AddEvent(Object(id, data)))
    /\ handled' = NoEvent
    /\ UNCHANGED rootVars
    /\ UNCHANGED <<engineVars, closeVars, procVars, loop, run>>

\* a ConfigMap is deleted
DeleteConfigMap(id) ==
    /\ \A inf \in RunningCM : Len(evq[inf]) < MaxQueue
    /\ id \in DOMAIN api.ConfigMaps
    /\ api' = [api EXCEPT !.ConfigMaps =
                 [x \in (DOMAIN @) \ {id} |-> @[x]]]
    /\ evq' = Enqueue(evq, RunningCM,
                      DeleteEvent(Object(id, api.ConfigMaps[id])))
    /\ handled' = NoEvent
    /\ UNCHANGED rootVars
    /\ UNCHANGED <<engineVars, closeVars, procVars, loop, run>>

\* the orders in which the objects of a list can be reported
Orders(S) == {f \in [1..Cardinality(S) -> S] : \A i, j \in DOMAIN f :
                                                   i # j => f[i] # f[j]}

\* ConfigMapMonitor.Run: the handler is registered and the informer lists
\* the ConfigMaps of the cluster, an add event for each.  The informer
\* factory of NewNamespace is made without a namespace option.
ConfigMapRun(n) ==
    /\ loop[<<n, "ConfigMap">>] = "starting"
    /\ ~stop
    /\ \E order \in Orders(DOMAIN api.ConfigMaps) :
          evq' = [evq EXCEPT ![<<n, "ConfigMap">>] =
                    [i \in DOMAIN order |->
                        AddEvent(Object(order[i], api.ConfigMaps[order[i]]))]]
    /\ loop' = [loop EXCEPT ![<<n, "ConfigMap">>] = "running"]
    /\ handled' = NoEvent
    /\ UNCHANGED rootVars
    /\ UNCHANGED <<engineVars, closeVars, procVars, api, run>>

\* the informer resyncs: an update event with the stored object as both old
\* and new
ConfigMapResync(n, id) ==
    /\ loop[<<n, "ConfigMap">>] = "running"
    /\ evq[<<n, "ConfigMap">>] = <<>>
    /\ id \in DOMAIN api.ConfigMaps
    /\ evq' = [evq EXCEPT ![<<n, "ConfigMap">>] =
                 <<UpdateEvent(Object(id, api.ConfigMaps[id]),
                               Object(id, api.ConfigMaps[id]))>>]
    /\ handled' = NoEvent
    /\ UNCHANGED rootVars
    /\ UNCHANGED <<engineVars, closeVars, procVars, api, loop, run>>

\* the informer hands its next event to the filtering handler of the
\* namespace's ConfigMap monitor
ConfigMapEvent(n) ==
    /\ loop[<<n, "ConfigMap">>] = "running"
    /\ evq[<<n, "ConfigMap">>] # <<>>
    /\ changes' = IF ConfigMapHandle(namespaces[n].ConfigMaps,
                                     Head(evq[<<n, "ConfigMap">>]))
                  THEN TriggerChange(changes)
                  ELSE changes
    /\ evq' = [evq EXCEPT ![<<n, "ConfigMap">>] = Tail(@)]
    /\ handled' = [n |-> n, kind |-> "ConfigMap",
                   ev |-> Head(evq[<<n, "ConfigMap">>]),
                   keys |-> namespaces[n].ConfigMaps, before |-> changes,
                   fired |-> ConfigMapHandle(namespaces[n].ConfigMaps,
                                             Head(evq[<<n, "ConfigMap">>]))]
    /\ UNCHANGED <<namespaces, learning, learnMutex, learned, closeVars,
                   procVars, api, loop, run, rootVars>>

\* Informer().Run returns once the stop channel is closed
ConfigMapStop(n) ==
    /\ loop[<<n, "ConfigMap">>] \in {"starting", "running"}
    /\ stop
    /\ loop' = [loop EXCEPT ![<<n, "ConfigMap">>] = "exited"]
    /\ evq' = [evq EXCEPT ![<<n, "ConfigMap">>] = <<>>]
    /\ handled' = NoEvent
    /\ UNCHANGED rootVars
    /\ UNCHANGED <<engineVars, closeVars, procVars, api, run>>

\* the interest set of the monitor of a kind
InterestField(kind) ==
    CASE kind = "ConfigMap" -> "ConfigMaps"
      [] kind = "Secret" -> "Secrets"
      [] kind = "Service" -> "Services"
      [] kind = "Endpoints" -> "Endpoints"

\* the filtering handler of the monitor of a kind: TRUE iff the event makes
\* the monitor call triggerChange
Handle(kind, keys, ev) ==
    CASE kind = "ConfigMap" -> ConfigMapHandle(keys, ev)
      [] kind = "Secret" -> SecretHandle(keys, ev)
      [] kind = "Service" -> ServiceHandle(keys, ev)
      [] kind = "Endpoints" -> EndpointsHandle(keys, ev)

\* the Run of a monitor: the handler is registered and the informer runs
MonitorRun(n, kind) ==
    /\ loop[<<n, kind>>] = "starting"
    /\ ~stop
    /\ loop' = [loop EXCEPT ![<<n, kind>>] = "running"]
    /\ handled' = NoEvent
    /\ UNCHANGED rootVars
    /\ UNCHANGED <<engineVars, closeVars, procVars, api, evq, run>>

\* the informer of a kind hands an event of the cluster to the filtering
\* handler of the namespace's monitor
MonitorEvent(n, kind, ev) ==
    /\ loop[<<n, kind>>] = "running"
    /\ evq[<<n, kind>>] = <<>>
    /\ LET keys == namespaces[n][InterestField(kind)]
           fired == Handle(kind, keys, ev)
       IN  /\ changes' = IF fired THEN TriggerChange(changes) ELSE changes
           /\ handled' = [n |-> n, kind |-> kind, ev |-> ev, keys |-> keys,
                          before |-> changes, fired |-> fired]
    /\ UNCHANGED <<namespaces, learning, learnMutex, learned, closeVars,
                   procVars, api, watchVars, rootVars>>

\* the Run of the Secret, Service or Endpoints monitor of a namespace returns
\* once the stop channel is closed
MonitorStop(n, kind) ==
    /\ loop[<<n, kind>>] \in {"starting", "running"}
    /\ stop
    /\ loop' = [loop EXCEPT ![<<n, kind>>] = "exited"]
    /\ evq' = [evq EXCEPT ![<<n, kind>>] = <<>>]
    /\ handled' = NoEvent
    /\ UNCHANGED rootVars
    /\ UNCHANGED <<engineVars, closeVars, procVars, api, run>>

SecretStop(n) == MonitorStop(n, "Secret")
ServiceStop(n) == MonitorStop(n, "Service")
EndpointsStop(n) == MonitorStop(n, "Endpoints")

\* wg.Wait of Namespace.Run returns: no wg.Done is outstanding
WaitGroupDoneAny(lp, n) == \E kind \in Kinds : lp[<<n, kind>>] = "exited"

WaitGroupDone(lp, n) == \A kind \in Kinds : lp[<<n, kind>>] = "exited"

\* Namespace.Run returns
NamespaceRunReturn(n) ==
    /\ run[n] = "running"
    /\ WaitGroupDone(loop, n)
    /\ run' = [run EXCEPT ![n] = "returned"]
    /\ handled' = NoEvent
    /\ UNCHANGED rootVars
    /\ UNCHANGED <<engineVars, closeVars, procVars, api, loop, evq>>

(***************************************************************************)
(* Specification Spec: two callers learn and render ConfigMap templates    *)
(* while a ConfigMap changes in the cluster                                *)
(***************************************************************************)
CM(name, ns, key) == Ref("ConfigMap", name, ns, key)

Templates ==
    { <<CM("m1", "n1", "k1")>>,
      <<CM("m1", "n1", "k1"), CM("m1", "n1", "k2")>>,
      <<CM("m1", "n2", "k1"), CM("m1", "n1", "k1")>> }

\* the data a ConfigMap can have
ConfigMapData ==
    UNION {[ks -> Values] : ks \in SUBSET Keys}

Changing == {<<"n1", "m1">>}

Init ==
    /\ InitEngine
    /\ InitRoot(<<>>)
    /\ api = EmptyAPI

Next ==
    \/ \E p \in Procs, T \in Templates : LearnCall(p, T)
    \/ \E p \in Procs : LearnAnnounce(p)
    \/ \E p \in Procs : LearnAcquire(p)
    \/ \E p \in Procs : LearnStep(p)
    \/ \E p \in Procs, T \in Templates : RenderCall(p, T)
    \/ \E p \in Procs : RenderStep(p)
    \/ \E p \in Procs : Return(p)
    \/ \E id \in Changing, data \in ConfigMapData : ApplyConfigMap(id, data)
    \/ \E id \in Changing : DeleteConfigMap(id)

Spec == Init /\ [][Next]_vars

(***************************************************************************)
(* Specification SpecWatch: one caller learns templates, the ConfigMap      *)
(* informers of the namespaces deliver the events of a changing ConfigMap  *)
(* and a second caller waits for the change signal                         *)
(***************************************************************************)
Caller == "p1"
Waiter == "p2"

WatchTemplates ==
    { <<CM("m1", "n1", "k1")>>,
      <<CM("m1", "n1", "k1"), CM("m1", "n1", "k2")>> }

\* the value of a key in the data of an object, "absent" when it has none
Lookup(data, k) == IF k \in DOMAIN data THEN <<"present", data[k]>> ELSE <<"absent">>

\* the contents an edit of one key of the ConfigMap can give it: the key is
\* added, removed or given another value (a ConfigMap that does not exist is
\* created with any contents)
WatchEdits(id) ==
    IF id \in DOMAIN api.ConfigMaps
    THEN {d \in ConfigMapData :
            Cardinality({k \in Keys :
                Lookup(d, k) # Lookup(api.ConfigMaps[id], k)}) = 1}
    ELSE ConfigMapData

NextWatch ==
    \/ \E T \in WatchTemplates : LearnCall(Caller, T)
    \/ LearnAnnounce(Caller)
    \/ LearnAcquire(Caller)
    \/ LearnStep(Caller)
    \/ Return(Caller)
    \/ Return(Waiter)
    \/ \E done \in BOOLEAN : WaitCall(Waiter, done)
    \/ CtxCancel(Waiter)
    \/ WaitSignal(Waiter)
    \/ WaitCancel(Waiter)
    \/ \E id \in Changing : \E data \in WatchEdits(id) : ApplyConfigMap(id, data)
    \/ \E id \in Changing : DeleteConfigMap(id)
    \/ \E n \in Namespaces : ConfigMapRun(n)
    \/ \E n \in Namespaces, id \in Changing : ConfigMapResync(n, id)
    \/ \E n \in Namespaces : ConfigMapEvent(n)

SpecWatch == Init /\ [][NextWatch]_vars

(***************************************************************************)
(* Specification SpecClose: callers learn, render and close the engine     *)
(***************************************************************************)
CloseTemplates == { <<CM("m1", "n1", "k1"), CM("m1", "n1", "k2")>> }

NextClose ==
    \/ \E p \in Procs, T \in CloseTemplates : LearnCall(p, T)
    \/ \E p \in Procs : LearnAnnounce(p)
    \/ \E p \in Procs : LearnAcquire(p)
    \/ \E p \in Procs : LearnStep(p)
    \/ \E p \in Procs, T \in CloseTemplates : RenderCall(p, T)
    \/ \E p \in Procs : RenderStep(p)
    \/ \E p \in Procs : Return(p)
    \/ \E p \in Procs : Close(p)
    \/ \E n \in Namespaces : ConfigMapRun(n)
    \/ \E n \in Namespaces : ConfigMapStop(n)

SpecClose == Init /\ [][NextClose]_vars

(***************************************************************************)
(* Specification SpecRun: one caller learns templates of two namespaces,   *)
(* another closes the engine, and the goroutines of the namespaces run     *)
(***************************************************************************)
RunTemplates == { <<CM("m1", "n1", "k1")>>, <<CM("m1", "n2", "k1")>> }

NextRun ==
    \/ \E T \in RunTemplates : LearnCall(Caller, T)
    \/ LearnAnnounce(Caller)
    \/ LearnAcquire(Caller)
    \/ LearnStep(Caller)
    \/ Return(Caller)
    \/ Close(Waiter)
    \/ \E n \in Namespaces : ConfigMapRun(n)
    \/ \E n \in Namespaces : ConfigMapStop(n)
    \/ \E n \in Namespaces : SecretStop(n)
    \/ \E n \in Namespaces : ServiceStop(n)
    \/ \E n \in Namespaces : EndpointsStop(n)
    \/ \E n \in Namespaces : NamespaceRunReturn(n)

\* the goroutines of a namespace are scheduled: a monitor loop that can exit
\* does exit, and a Run whose wait group is done returns
FairRun ==
    /\ \A n \in Namespaces :
          /\ WF_vars(ConfigMapStop(n))
          /\ WF_vars(SecretStop(n))
          /\ WF_vars(ServiceStop(n))
          /\ WF_vars(EndpointsStop(n))
          /\ WF_vars(NamespaceRunReturn(n))

SpecRun == Init /\ [][NextRun]_vars /\ FairRun

(***************************************************************************)
(* Specification SpecAcc: one caller learns and renders one-reference      *)
(* templates of every accessor against a cluster drawn from AccAPIs        *)
(***************************************************************************)
\* learned in namespace n1 only; n2 stays unmonitored
R1(acc) == Ref(acc, "m1", "n1", "k1")

LearnTemplates ==
    { <<R1("ConfigMap"), R1("Service")>>,
      <<R1("Secret"), R1("Endpoints")>>,
      <<R1("SecretBinary"), R1("ServiceIP"), R1("EndpointIPs")>> }

RenderTemplates == { <<Ref(acc, "m1", ns, "k1")>> :
                        acc \in Accessors, ns \in Namespaces }

SecretValues == {<<>>, <<"YQ==">>, <<"%%%%">>}

SecretData ==
    {EmptyMap, [k \in {"k2"} |-> <<"YQ==">>]}
        \cup {[k \in {"k1"} |-> v] : v \in SecretValues}

AccConfigMapData == {[k \in {"k1"} |-> <<"a">>], [k \in {"k2"} |-> <<"a">>]}

Subset(addrs) == [Addresses |-> addrs, Ports |-> <<[Name |-> "sip", Port |-> 5060]>>]

\* the cluster in which the objects m1 of namespace n1 have the given
\* contents
AccAPI(cm, sec) ==
    [ConfigMaps |-> [id \in {<<"n1", "m1">>} |-> cm],
     Secrets |-> [id \in {<<"n1", "m1">>} |-> sec],
     Services |-> [id \in {<<"n1", "m1">>} |-> [ClusterIP |-> "10.0.0.1"]],
     Endpoints |-> [id \in {<<"n1", "m1">>} |->
                      [Subsets |-> <<Subset(<<"10.0.0.1", "10.0.0.2">>)>>]]]

\* the objects are all missing, or all there with some contents
InitAcc ==
    /\ InitEngine
    /\ InitRoot(<<>>)
    /\ \/ api = EmptyAPI
       \/ \E cm \in AccConfigMapData, sec \in SecretData : api = AccAPI(cm, sec)

NextAcc ==
    \/ \E T \in LearnTemplates : LearnCall(Caller, T)
    \/ LearnAnnounce(Caller)
    \/ LearnAcquire(Caller)
    \/ LearnStep(Caller)
    \/ \E T \in RenderTemplates : RenderCall(Caller, T)
    \/ RenderStep(Caller)
    \/ Return(Caller)

SpecAcc == InitAcc /\ [][NextAcc]_vars

(***************************************************************************)
(* Specification SpecMon: one caller learns a template that uses all four  *)
(* kinds, the four informers of the namespaces deliver events of objects   *)
(* of two names and a second caller waits for the change signal            *)
(***************************************************************************)
MonTemplate ==
    <<R1("SecretBinary"), R1("Service"), R1("Endpoints"), R1("ConfigMap")>>

MonAPI == AccAPI([k \in {"k1"} |-> <<"a">>], [k \in {"k1"} |-> <<"YQ==">>])

\* addresses as strings of characters
IP1 == <<"1", ".", "1", ".", "1", ".", "1">>
IP2 == <<"2", ".", "2", ".", "2", ".", "2">>

\* the objects of the events: two contents for each kind
MonIds == {<<"n1", "m1">>, <<"n1", "m2">>}

MonData(kind) ==
    CASE kind = "ConfigMap" -> {[k \in {"k1"} |-> <<"a">>], [k \in {"k1"} |-> <<"<">>]}
      [] kind = "Secret" -> {[k \in {"k1"} |-> <<"YQ==">>], [k \in {"k1"} |-> <<>>]}
      [] kind = "Service" -> {[ClusterIP |-> "10.0.0.1"], [ClusterIP |-> "10.0.0.2"]}
      [] kind = "Endpoints" ->
           {[Subsets |-> <<[Addresses |-> <<ip>>,
                            Ports |-> <<[Name |-> <<"s">>, Port |-> 60]>>]>>] :
               ip \in {IP1, IP2}}

\* the add, update and delete events of objects with the given identities
\* and contents
EventsOf(ids, data) ==
    {AddEvent(Object(id, d)) : id \in ids, d \in data}
        \cup {DeleteEvent(Object(id, d)) : id \in ids, d \in data}
        \cup {UpdateEvent(Object(id[1], id[2]), Object(id[1], id[3])) :
                 id \in {<<i, d1, d2>> : i \in ids, d1 \in data, d2 \in data}}

MonEvents(kind) == EventsOf(MonIds, MonData(kind))

InitMon ==
    /\ InitEngine
    /\ InitRoot(<<>>)
    /\ api = MonAPI

NextMon ==
    \/ LearnCall(Caller, MonTemplate)
    \/ LearnAnnounce(Caller)
    \/ LearnAcquire(Caller)
    \/ LearnStep(Caller)
    \/ Return(Caller)
    \/ WaitCall(Waiter, FALSE)
    \/ WaitSignal(Waiter)
    \/ Return(Waiter)
    \/ \E n \in Namespaces, kind \in Kinds : MonitorRun(n, kind)
    \/ \E n \in Namespaces, kind \in Kinds :
          \E ev \in MonEvents(kind) : MonitorEvent(n, kind, ev)

SpecMon == InitMon /\ [][NextMon]_vars

(***************************************************************************)
(* Specification SpecEndpoints: one caller learns a template that uses an  *)
(* Endpoints object and the Endpoints informer delivers events in which    *)
(* the object changes its subsets, addresses and ports                     *)
(***************************************************************************)
EndpointsTemplate == <<R1("Endpoints")>>

IP12 == <<"1", ".", "1", ".", "1", ".", "1", "2">>
IP22 == <<"2", "2", ".", "2", ".", "2", ".", "2">>

AddressPool == {IP1, IP2}

PortPool == {[Name |-> <<"s", "5">>, Port |-> 60], [Name |-> <<"s">>, Port |-> 560]}

\* the sequences of one or more distinct elements of S
DistinctSeqs(S) ==
    UNION {{q \in [1..n -> S] : \A i, j \in 1..n : i # j => q[i] # q[j]} :
              n \in 1..Cardinality(S)}

\* Endpoints objects of one subset in which the addresses vary, of one
\* subset in which the ports vary, and of two subsets
EndpointsData ==
    {[Subsets |-> <<[Addresses |-> as, Ports |-> <<[Name |-> <<"s">>, Port |-> 560]>>]>>] :
        as \in DistinctSeqs(AddressPool) \cup {<<IP1, IP22>>, <<IP12, IP2>>}}
    \cup
    {[Subsets |-> <<[Addresses |-> <<IP1, IP2>>, Ports |-> ps]>>] :
        ps \in DistinctSeqs(PortPool)}
    \cup
    {[Subsets |-> <<[Addresses |-> <<as[1]>>, Ports |-> <<ps[1]>>],
                    [Addresses |-> <<as[2]>>, Ports |-> <<ps[2]>>]>>] :
        as \in {q \in DistinctSeqs(AddressPool) : Len(q) = 2},
        ps \in {q \in DistinctSeqs(PortPool) : Len(q) = 2}}

EndpointsEvents == EventsOf({<<"n1", "m1">>}, EndpointsData)

NextEndpoints ==
    \/ LearnCall(Caller, EndpointsTemplate)
    \/ LearnAnnounce(Caller)
    \/ LearnAcquire(Caller)
    \/ LearnStep(Caller)
    \/ Return(Caller)
    \/ \E n \in Namespaces : MonitorRun(n, "Endpoints")
    \/ \E n \in Namespaces, ev \in EndpointsEvents :
          MonitorEvent(n, "Endpoints", ev)

SpecEndpoints == InitMon /\ [][NextEndpoints]_vars

(***************************************************************************)
(* Specification SpecDefault: one caller learns and renders templates that *)
(* name the namespace of the process or leave the namespace empty.  The    *)
(* informers of a controller made for the empty name are not followed.     *)
(***************************************************************************)
\* the namespace of the process (POD_NAMESPACE)
DefaultNamespace == "n1"

EmptyNamespace == ""

DefaultTemplates ==
    { <<Ref(acc, "m1", ns, "k1")>> :
        acc \in {"ConfigMap", "Service"}, ns \in {EmptyNamespace, DefaultNamespace} }

NextDefault ==
    \/ \E T \in DefaultTemplates : LearnCall(Caller, T)
    \/ LearnAnnounce(Caller)
    \/ LearnAcquire(Caller)
    \/ LearnStep(Caller)
    \/ \E T \in DefaultTemplates : RenderCall(Caller, T)
    \/ RenderStep(Caller)
    \/ Return(Caller)

SpecDefault == InitMon /\ [][NextDefault]_vars

(***************************************************************************)
(* Specification SpecKeys: one caller learns a template that reads two     *)
(* keys of a ConfigMap and of a Secret; the informers deliver events whose *)
(* objects hold any of the keys, with an empty or a non-empty value        *)
(***************************************************************************)
KeysTemplate ==
    <<CM("m1", "n1", "k1"), CM("m1", "n1", "k2"),
      Ref("SecretBinary", "m1", "n1", "k1"),
      Ref("SecretBinary", "m1", "n1", "k2")>>

KeysAPI == AccAPI([k \in Keys |-> <<"a">>], [k \in Keys |-> <<"YQ==">>])

\* the data of the objects of the events: each key is absent, empty or set
KeysData == UNION {[ks -> {<<>>, <<"a">>}] : ks \in SUBSET Keys}

KeysEvents == EventsOf({<<"n1", "m1">>}, KeysData)

InitKeys ==
    /\ InitEngine
    /\ InitRoot(<<>>)
    /\ api = KeysAPI

NextKeys ==
    \/ LearnCall(Caller, KeysTemplate)
    \/ LearnAnnounce(Caller)
    \/ LearnAcquire(Caller)
    \/ LearnStep(Caller)
    \/ Return(Caller)
    \/ \E n \in Namespaces, kind \in {"ConfigMap", "Secret"} : MonitorRun(n, kind)
    \/ \E n \in Namespaces, kind \in {"ConfigMap", "Secret"} :
          \E ev \in KeysEvents : MonitorEvent(n, kind, ev)

SpecKeys == InitKeys /\ [][NextKeys]_vars

(***************************************************************************)
(* Specification SpecService: one caller learns a template that reads a    *)
(* Service; the informer delivers events of Services whose specification   *)
(* and whose resource version vary independently                           *)
(***************************************************************************)
ServiceTemplate == <<R1("Service")>>

\* a Service: the cluster address of its specification and the resource
\* version of its metadata
ServiceData ==
    {[ClusterIP |-> ip, ResourceVersion |-> rv] : ip \in IPs, rv \in {"1", "2"}}

ServiceEvents == EventsOf(MonIds, ServiceData)

NextService ==
    \/ LearnCall(Caller, ServiceTemplate)
    \/ LearnAnnounce(Caller)
    \/ LearnAcquire(Caller)
    \/ LearnStep(Caller)
    \/ Return(Caller)
    \/ WaitCall(Waiter, FALSE)
    \/ WaitSignal(Waiter)
    \/ Return(Waiter)
    \/ \E n \in Namespaces : MonitorRun(n, "Service")
    \/ \E n \in Namespaces, ev \in ServiceEvents : MonitorEvent(n, "Service", ev)

SpecService == InitMon /\ [][NextService]_vars

(***************************************************************************)
(* Specification SpecCache: one caller learns and renders templates that   *)
(* read a ConfigMap of the same name in either namespace, while the one of *)
(* namespace n1 changes in the cluster and the ConfigMap informers of the  *)
(* namespaces deliver the events                                           *)
(***************************************************************************)
CacheTemplates == { <<CM("m1", "n1", "k1")>>, <<CM("m1", "n2", "k1")>> }

\* the store of an informer that still has the events q to deliver, given
\* the cluster they lead to: the events are taken back, the last one first
RECURSIVE Undo(_, _)
Undo(store, q) ==
    IF q = <<>> THEN store
    ELSE LET ev == q[Len(q)]
             id == <<ev.old.ns, ev.old.name>>
             before == IF ev.type = "add"
                       THEN [x \in (DOMAIN store) \ {id} |-> store[x]]
                       ELSE Put(store, id, ev.old.data)
         IN  Undo(before, SubSeq(q, 1, Len(q) - 1))

\* what the Lister of the ConfigMap informer of a namespace holds; an
\* informer that does not run has listed nothing
ConfigMapStore(n) ==
    IF loop[<<n, "ConfigMap">>] = "running"
    THEN Undo(api.ConfigMaps, evq[<<n, "ConfigMap">>])
    ELSE EmptyMap

NextCache ==
    \/ \E T \in CacheTemplates : LearnCall(Caller, T)
    \/ LearnAnnounce(Caller)
    \/ LearnAcquire(Caller)
    \/ LearnStep(Caller)
    \/ \E T \in CacheTemplates : RenderCall(Caller, T)
    \/ RenderStep(Caller)
    \/ Return(Caller)
    \/ \E id \in Changing : \E data \in WatchEdits(id) : ApplyConfigMap(id, data)
    \/ \E id \in Changing : DeleteConfigMap(id)
    \/ \E n \in Namespaces : ConfigMapRun(n)
    \/ \E n \in Namespaces : ConfigMapEvent(n)

SpecCache == Init /\ [][NextCache]_vars

(***************************************************************************)
(* The Engine of the root package: AddWatched, the event goroutine of each *)
(* Watcher, failure and Close                                              *)
(***************************************************************************)
\* the kinds with a registered Prototyper
RootKinds == {"ConfigMap", "Secret"}

RootNamespaces == {"n1"}

RootNames == {"m1", "m2"}

\* NewEngine called with a nil reload channel
NilChannel == "<nil chan>"

ErrStream == "watch stream failed"
ErrClosed == "watch closed"

\* the loop over e.watchers of AddWatched from the i-th entry on: the first
\* Watcher of the kind and namespace, 0 when there is none
RECURSIVE FindWatcher(_, _, _, _, _)
FindWatcher(ws, objs, i, kind, namespace) ==
    IF i > Len(ws) THEN 0
    ELSE IF objs[ws[i]].kind = kind /\ objs[ws[i]].namespace = namespace
         THEN ws[i]
         ELSE FindWatcher(ws, objs, i + 1, kind, namespace)

\* Watcher.Add on the resource list, with the outcome of the fetch that
\* Changeable makes
WatcherAdd(resources, name, fetched) ==
    IF \E i \in 1..Len(resources) : resources[i] = name
    THEN [resources |-> resources, err |-> Nil]
    ELSE IF ~fetched
         THEN [resources |-> resources, err |-> ErrNotFound]
         ELSE [resources |-> Append(resources, name), err |-> Nil]

\* the loop over w.resources of the event goroutine: TRUE iff a resource of
\* the list has the name of the object
NameWatched(resources, name) ==
    \E i \in 1..Len(resources) : resources[i] = name

\* a Close that closes the first registered Watcher only
CloseWatchersFirstOnly(ws, objs) ==
    [i \in DOMAIN objs |->
        IF ws # <<>> /\ i = ws[1] THEN [objs[i] EXCEPT !.closed = TRUE]
        ELSE objs[i]]

\* the loop of Engine.Close: every registered Watcher is closed
CloseWatchers(ws, objs) ==
    [i \in DOMAIN objs |->
        IF i \in Elems(ws) THEN [objs[i] EXCEPT !.closed = TRUE] ELSE objs[i]]

\* AddWatched up to the end of the loop under the read lock: the call
\* returns through Add of the Watcher found, or goes on to make one
AddWatchedLookup(p, kind, namespace, name, fetched) ==
    /\ adding[p].at = "idle"
    /\ LET w == FindWatcher(watchers, watcher, 1, kind, namespace)
       IN  IF w # 0
           THEN /\ watcher' = [watcher EXCEPT ![w].resources =
                                  WatcherAdd(@, name, fetched).resources]
                /\ UNCHANGED adding
           ELSE /\ adding' = [adding EXCEPT ![p] =
                                 [at |-> "watch", kind |-> kind,
                                  namespace |-> namespace, name |-> name]]
                /\ UNCHANGED watcher
    /\ UNCHANGED <<engineVars, closeVars, watchVars, procVars, api, handled,
                   watchers, reload>>

\* e.kc.Watch and Add on the new Watcher: the call returns the error of
\* either, or goes on to register the Watcher
AddWatchedWatch(p, watched, fetched) ==
    /\ adding[p].at = "watch"
    /\ Len(watcher) < MaxWatchers
    /\ IF ~watched
       THEN /\ adding' = [adding EXCEPT ![p] = NotAdding]
            /\ UNCHANGED watcher
       ELSE LET a == WatcherAdd(<<>>, adding[p].name, fetched)
                w == [kind |-> adding[p].kind,
                      namespace |-> adding[p].namespace,
                      resources |-> a.resources, closed |-> FALSE,
                      routine |-> [at |-> "none"]]
            IN  /\ watcher' = Append(watcher, w)
                /\ adding' = [adding EXCEPT ![p] =
                                 IF a.err # Nil THEN NotAdding
                                 ELSE [at |-> "append", w |-> Len(watcher) + 1]]
    /\ UNCHANGED <<engineVars, closeVars, watchVars, procVars, api, handled,
                   watchers, reload>>

\* the append under the write lock and the start of the event goroutine
AddWatchedAppend(p) ==
    /\ adding[p].at = "append"
    /\ watchers' = Append(watchers, adding[p].w)
    /\ watcher' = [watcher EXCEPT ![adding[p].w].routine = [at |-> "running"]]
    /\ adding' = [adding EXCEPT ![p] = NotAdding]
    /\ UNCHANGED <<engineVars, closeVars, watchVars, procVars, api, handled,
                   reload>>

\* w.w.Next returns an object of the kind and namespace; the goroutine goes
\* on to send nil when the object has a watched name and back to Next when
\* it has not
WatcherNext(w, name) ==
    /\ w \in DOMAIN watcher
    /\ watcher[w].routine.at = "running"
    /\ ~watcher[w].closed
    /\ watcher' = [watcher EXCEPT ![w].routine =
                      IF NameWatched(watcher[w].resources, name)
                      THEN [at |-> "notify", obj |-> name]
                      ELSE [at |-> "running"]]
    /\ UNCHANGED <<engineVars, closeVars, watchVars, procVars, api, handled,
                   watchers, reload, adding>>

\* e.reload <- nil
WatcherNotify(w) ==
    /\ w \in DOMAIN watcher
    /\ watcher[w].routine.at = "notify"
    /\ reload # NilChannel
    /\ Len(reload) < MaxReload
    /\ reload' = Append(reload, Nil)
    /\ watcher' = [watcher EXCEPT ![w].routine = [at |-> "running"]]
    /\ UNCHANGED <<engineVars, closeVars, watchVars, procVars, api, handled,
                   watchers, adding>>

\* w.w.Next returns an error: the stream failed, or the Watcher was closed
WatcherNextError(w) ==
    /\ w \in DOMAIN watcher
    /\ watcher[w].routine.at = "running"
    /\ watcher' = [watcher EXCEPT ![w].routine =
                      [at |-> "failing",
                       err |-> IF watcher[w].closed THEN ErrClosed
                               ELSE ErrStream]]
    /\ UNCHANGED <<engineVars, closeVars, watchVars, procVars, api, handled,
                   watchers, reload, adding>>

\* Engine.failure, first half: e.Close()
WatcherFailureClose(w) ==
    /\ w \in DOMAIN watcher
    /\ watcher[w].routine.at = "failing"
    /\ watcher' = [CloseWatchers(watchers, watcher) EXCEPT ![w].routine =
                      [at |-> "report", err |-> watcher[w].routine.err]]
    /\ watchers' = <<>>
    /\ UNCHANGED <<engineVars, closeVars, watchVars, procVars, api, handled,
                   reload, adding>>

\* Engine.failure, second half: the error is sent unless the channel is nil
WatcherFailureSend(w) ==
    /\ w \in DOMAIN watcher
    /\ watcher[w].routine.at = "report"
    /\ IF reload = NilChannel
       THEN UNCHANGED reload
       ELSE /\ Len(reload) < MaxReload
            /\ reload' = Append(reload, watcher[w].routine.err)
    /\ watcher' = [watcher EXCEPT ![w].routine = [at |-> "exited"]]
    /\ UNCHANGED <<engineVars, closeVars, watchVars, procVars, api, handled,
                   watchers, adding>>

\* the owner of the reload channel receives a value
ReloadReceive ==
    /\ reload # NilChannel
    /\ reload # <<>>
    /\ reload' = Tail(reload)
    /\ UNCHANGED <<engineVars, closeVars, watchVars, procVars, api, handled,
                   watchers, watcher, adding>>

\* Engine.Close of the root package, called by the owner of the engine
RootClose ==
    /\ watchers # <<>>
    /\ watcher' = CloseWatchers(watchers, watcher)
    /\ watchers' = <<>>
    /\ UNCHANGED <<engineVars, closeVars, watchVars, procVars, api, handled,
                   reload, adding>>

(***************************************************************************)
(* Specification SpecRoot: two callers add watched resources of two kinds  *)
(* to the root package Engine while the event streams deliver objects and  *)
(* fail and the owner of the reload channel receives                       *)
(***************************************************************************)
InitRootEngine ==
    /\ InitEngine
    /\ api = EmptyAPI
    /\ \E ch \in {NilChannel, <<>>} : InitRoot(ch)

NextRoot ==
    \/ \E p \in Procs, kind \in RootKinds, namespace \in RootNamespaces,
          name \in RootNames, fetched \in BOOLEAN :
          AddWatchedLookup(p, kind, namespace, name, fetched)
    \/ \E p \in Procs, watched \in BOOLEAN, fetched \in BOOLEAN :
          AddWatchedWatch(p, watched, fetched)
    \/ \E p \in Procs : AddWatchedAppend(p)
    \/ \E w \in 1..MaxWatchers, name \in RootNames : WatcherNext(w, name)
    \/ \E w \in 1..MaxWatchers : WatcherNotify(w)
    \/ \E w \in 1..MaxWatchers : WatcherNextError(w)
    \/ \E w \in 1..MaxWatchers : WatcherFailureClose(w)
    \/ \E w \in 1..MaxWatchers : WatcherFailureSend(w)
    \/ ReloadReceive
    \/ RootClose

SpecRoot == InitRootEngine /\ [][NextRoot]_vars

(***************************************************************************)
(* A whole learning pass as one function: the references are executed in   *)
(* order up to the first error                                             *)
(***************************************************************************)
RECURSIVE LearnFrom(_, _, _, _)
LearnFrom(nsmap, cluster, T, i) ==
    IF i > Len(T) THEN [map |-> nsmap, err |-> Nil]
    ELSE LET c == Call(TRUE, nsmap, cluster, T[i])
         IN  IF c.err # Nil THEN [map |-> c.map, err |-> c.err]
             ELSE LearnFrom(c.map, cluster, T, i + 1)

LearnPass(nsmap, cluster, T) == LearnFrom(nsmap, cluster, T, 1)

(***************************************************************************)
(* Properties                                                              *)
(***************************************************************************)
\* the interest sets of the monitors of a namespace (none before the
\* namespace has a controller)
InterestOf(nsmap, n) == IF n \in DOMAIN nsmap THEN nsmap[n] ELSE NewNamespace

\* key K of ConfigMap M is of interest to the ConfigMap monitor of N
InterestedIn(nsmap, r) ==
    /\ r.ns \in DOMAIN nsmap
    /\ r.name \in DOMAIN nsmap[r.ns].ConfigMaps
    /\ r.key \in Elems(nsmap[r.ns].ConfigMaps[r.name])

NoDuplicates(seq) == \A i, j \in 1..Len(seq) : i # j => seq[i] # seq[j]

\* C1: once Learn(T) has returned, every ConfigMap reference (M, N, K) of T
\* is in the interest set of the ConfigMap monitor of N, also when the call
\* made the first reference ever to N.
C1_LearnRegistersInterest ==
    \A p \in Procs :
        pc[p] = "learn_done" =>
            \A i \in 1..Len(tmpl[p]) :
                tmpl[p][i].acc = "ConfigMap" => InterestedIn(namespaces, tmpl[p][i])

\* an update event handled by the ConfigMap monitor of a namespace
HandledUpdate == handled.n # NilNamespace /\ handled.ev.type = "update"

\* C2: after a Learn of a template that references key K of ConfigMap M in
\* namespace N has returned, an update event for M of N in which the value of
\* K differs between the old and the new object leaves a change signal in the
\* queue, so that a Wait returns through the signal.
C2_UpdateOfLearnedKeySignals ==
    \A K \in Keys :
        ( /\ HandledUpdate
          /\ handled.ev.new.ns = handled.n
          /\ \E T \in learned : \E i \in 1..Len(T) :
                 T[i] = CM(handled.ev.new.name, handled.n, K)
          /\ Lookup(handled.ev.old.data, K) # Lookup(handled.ev.new.data, K) )
        => changes = 1

\* the monitor that handled the update has exactly the key K of interest for
\* the updated ConfigMap, the update leaves K as it was and changes, adds or
\* removes another key
OtherKeyUpdate(K) ==
    /\ HandledUpdate
    /\ handled.ev.new.name \in DOMAIN handled.keys
    /\ Elems(handled.keys[handled.ev.new.name]) = {K}
    /\ Lookup(handled.ev.old.data, K) = Lookup(handled.ev.new.data, K)
    /\ \E K2 \in Keys \ {K} :
          Lookup(handled.ev.old.data, K2) # Lookup(handled.ev.new.data, K2)

\* C3 as stated: when the only key of interest for ConfigMap M is K, an
\* update event for M that changes, adds or removes only another key puts no
\* change signal on the queue.
C3_OtherKeyUpdateSilent_Original ==
    \A K \in Keys : OtherKeyUpdate(K) => changes = handled.before

\* C3 as amended: when the only key of interest for ConfigMap M is K and the
\* old object has K, an update event for M that leaves K as it was and
\* changes, adds or removes only another key puts no change signal on the
\* queue.
C3_OtherKeyUpdateSilent ==
    \A K \in Keys :
        (OtherKeyUpdate(K) /\ K \in DOMAIN handled.ev.old.data)
            => changes = handled.before

C3_Witness ==
    /\ OtherKeyUpdate("k1")
    /\ "k1" \in DOMAIN handled.ev.old.data
    /\ handled.before = 0
    /\ changes = 0

\* C4: for every template T and every engine state, the interest sets of all
\* monitors after Learn(T); Learn(T) equal those after one Learn(T), and no
\* name or key appears twice.
C4_LearnIdempotent ==
    \A T \in Templates :
        LET once == LearnPass(namespaces, api, T).map
            twice == LearnPass(once, api, T).map
        IN  /\ \A n \in Namespaces : InterestOf(twice, n) = InterestOf(once, n)
            /\ \A n \in DOMAIN twice :
                  /\ \A name \in DOMAIN twice[n].ConfigMaps :
                        NoDuplicates(twice[n].ConfigMaps[name])
                  /\ \A name \in DOMAIN twice[n].Secrets :
                        NoDuplicates(twice[n].Secrets[name])
                  /\ NoDuplicates(twice[n].Services)
                  /\ NoDuplicates(twice[n].Endpoints)

\* the reference a caller executed last
LastRef(p) == tmpl[p][pos[p]]

\* C5: in rendering mode every resource accessor called with a namespace
\* that has no controller returns ErrNoNamespace, and Render returns that
\* error to its caller.
C5_UnmonitoredNamespaceFails ==
    \A p \in Procs :
        (pc[p] = "render_done" /\ LastRef(p).ns \notin DOMAIN namespaces)
            => (ret[p].err = ErrNoNamespace /\ err[p] = ErrNoNamespace)

\* C6: after a Learn(T) of a template that references key K of ConfigMap M
\* has returned, every reference of a later Render(T) to a key that M has
\* succeeds and writes the value the key has at that time.
C6_RenderWritesLiveValue ==
    [][\A p \in Procs :
          LET r == tmpl[p][pos[p]]
              id == <<r.ns, r.name>>
          IN  ( /\ RenderStep(p)
                /\ tmpl[p] \in learned
                /\ r.acc = "ConfigMap"
                /\ id \in DOMAIN api.ConfigMaps
                /\ r.key \in DOMAIN api.ConfigMaps[id] )
              => ( /\ err'[p] = Nil
                   /\ out'[p] = out[p] \o api.ConfigMaps[id][r.key] )]_vars

\* the reference is to an object of the cluster, in a namespace that has a
\* controller, through one of the accessors for keyed data
KeyedRef(r) ==
    /\ r.acc \in {"ConfigMap", "Secret", "SecretBinary"}
    /\ r.ns \in DOMAIN namespaces
    /\ <<r.ns, r.name>> \in DOMAIN
          (IF r.acc = "ConfigMap" THEN api.ConfigMaps ELSE api.Secrets)

\* the data of the object a keyed reference names
DataOf(r) ==
    IF r.acc = "ConfigMap" THEN api.ConfigMaps[<<r.ns, r.name>>]
    ELSE api.Secrets[<<r.ns, r.name>>]

\* C7: when the namespace has a controller and the ConfigMap or Secret exists
\* but has no such key, the ConfigMap, Secret and SecretBinary accessors
\* return the empty value and no error, in learning and in rendering mode.
C7_MissingKeySoftFailure ==
    [][\A p \in Procs :
          ( /\ LearnStep(p) \/ RenderStep(p)
            /\ KeyedRef(LastRef(p))
            /\ LastRef(p).key \notin DOMAIN DataOf(LastRef(p)) )
          => ret'[p] = [val |-> <<>>, err |-> Nil]]_vars

C7_Witness ==
    \E p \in Procs :
        /\ pc[p] = "render_done"
        /\ LastRef(p).acc = "Secret"
        /\ KeyedRef(LastRef(p))
        /\ DataOf(LastRef(p)) # EmptyMap
        /\ LastRef(p).key \notin DOMAIN DataOf(LastRef(p))
        /\ ret[p] = [val |-> <<>>, err |-> Nil]
        /\ err[p] = Nil

\* the byte string that a sequence of base64 quanta encodes
Decoded(src) == Flatten([i \in 1..Len(src) |-> B64Decoded(src[i])])

\* C8: when the namespace has a controller, the Secret exists and has the
\* key, the Secret accessor returns the decoded value and no error if the
\* stored bytes are a valid non-empty encoding, and a decoding error, which
\* is the error of the Render, if they cannot be decoded.
C8_SecretDecodes ==
    \A p \in Procs :
        ( /\ pc[p] = "render_done"
          /\ LastRef(p).acc = "Secret"
          /\ KeyedRef(LastRef(p))
          /\ LastRef(p).key \in DOMAIN DataOf(LastRef(p)) )
        => LET b == DataOf(LastRef(p))[LastRef(p).key]
           IN  /\ (b # <<>> /\ \A i \in 1..Len(b) : b[i] \in B64Valid)
                     => ret[p] = [val |-> Decoded(b), err |-> Nil]
               /\ (\E i \in 1..Len(b) : b[i] \notin B64Valid)
                     => (ret[p].err = ErrDecode /\ err[p] = ErrDecode)

\* the callers that hold the lock for writing, and for reading
Learning == {p \in Procs : pc[p] = "learn"}
Rendering == {p \in Procs : pc[p] = "render"}

\* C9: a Learn in progress excludes every Render and every other Learn: no
\* Render executes an accessor between the first and the last registration
\* of a Learn.
C9_LearnExcludesRender ==
    /\ Cardinality(Learning) <= 1
    /\ Learning # {} => Rendering = {}
    /\ learning => Learning # {}
    /\ Rendering # {} => ~learning
    /\ learnMutex.readers = Cardinality(Rendering)

C9_Witness ==
    \E p, q \in Procs :
        /\ pc[p] = "learn"
        /\ pos[p] = 2
        /\ Len(tmpl[p]) = 2
        /\ pc[q] = "render_blocked"
        /\ learning

\* C10: whatever the number of Close calls, the stop channel is closed
\* exactly once, no call fails or panics, and a caller can always call Close,
\* whoever holds or waits for the learning lock.
C10_CloseIdempotent ==
    /\ stopCloses <= 1
    /\ closeCalls >= 1 => (stop /\ stopFunc /\ stopCloses = 1)
    /\ closeErr = Nil
    /\ \A p \in Procs :
          (pc[p] = "idle" /\ closeCalls < MaxCloseCalls) => ENABLED Close(p)

C10_Witness ==
    /\ closeCalls >= 2
    /\ stopCloses = 1
    /\ closeErr = Nil
    /\ \E p \in Procs : pc[p] = "learn" /\ learnMutex.w

\* C11: a Run of a namespace returns only when all four of its monitor loops
\* have exited, and once the stop channel is closed every Run that is
\* running returns, also the Run of a namespace that a Learn creates after
\* the Close.
C11_RunReturnsAfterClose ==
    /\ [](\A n \in Namespaces :
            run[n] = "returned" => \A kind \in Kinds : loop[<<n, kind>>] = "exited")
    /\ \A n \in Namespaces :
          (stop /\ run[n] = "running") ~> (run[n] = "returned")

C11_Witness ==
    /\ stop
    /\ \A n \in Namespaces :
          /\ run[n] = "returned"
          /\ \A kind \in Kinds : loop[<<n, kind>>] = "exited"

\* C12: a Wait returns only through its context, which is then done, or
\* through the change queue, from which it then takes exactly one signal,
\* leaving it empty; it returns no error.
C12_WaitReturns ==
    [][\A p \in Procs :
          (pc[p] = "wait" /\ pc'[p] = "wait_done")
          => /\ ret'[p].err = Nil
             /\ \/ ctx[p] /\ ret'[p].val = <<"cancel">> /\ changes' = changes
                \/ /\ ret'[p].val = <<"signal">>
                   /\ changes = 1
                   /\ changes' = 0]_vars

C12_Witness ==
    /\ pc[Waiter] = "wait_done"
    /\ ret[Waiter] = [val |-> <<"signal">>, err |-> Nil]
    /\ ~ctx[Waiter]
    /\ changes = 0

\* a monitor handled an event
Handled == handled.n # NilNamespace

\* C13: the change queue never holds more than one signal, and a monitor
\* can handle an event whatever the queue holds: a material event that finds
\* a signal pending leaves that one signal.
C13_SignalsCoalesce ==
    /\ changes \in {0, 1}
    /\ (Handled /\ handled.fired) => changes = 1
    /\ \A n \in Namespaces, kind \in Kinds :
          (loop[<<n, kind>>] = "running" /\ changes = 1)
              => \A ev \in MonEvents(kind) : ENABLED MonitorEvent(n, kind, ev)

C13_Witness ==
    /\ Handled
    /\ handled.fired
    /\ handled.kind = "Endpoints"
    /\ handled.before = 1
    /\ changes = 1
    /\ pc[Waiter] = "wait_done"

\* the name of the object of the handled event is in the interest set of
\* the monitor that handled it
HandledNameOfInterest ==
    IF handled.kind \in {"ConfigMap", "Secret"}
    THEN handled.ev.new.name \in DOMAIN handled.keys
    ELSE handled.ev.new.name \in Elems(handled.keys)

\* C16: an add, update or delete event for an object whose name is not in
\* the interest set of the monitor emits no change signal, for each of the
\* four monitors.
C16_FilterBeforeMateriality ==
    (Handled /\ ~HandledNameOfInterest)
        => (~handled.fired /\ changes = handled.before)

C16_Witness ==
    /\ Handled
    /\ handled.kind = "Service"
    /\ Elems(handled.keys) = {"m1"}
    /\ handled.ev.type = "update"
    /\ handled.ev.new.name = "m2"
    /\ handled.ev.old.data # handled.ev.new.data
    /\ changes = 0

\* the two sequences have the same elements the same number of times
SameMultiset(q, r) ==
    \A x \in Elems(q) \cup Elems(r) :
        Cardinality({i \in DOMAIN q : q[i] = x})
            = Cardinality({i \in DOMAIN r : r[i] = x})

\* all addresses and all (port name, port number) pairs of an Endpoints
\* object
AllAddresses(ep) == Flatten([i \in 1..Len(ep.Subsets) |-> ep.Subsets[i].Addresses])
AllPorts(ep) == Flatten([i \in 1..Len(ep.Subsets) |-> ep.Subsets[i].Ports])

\* the monitor of Endpoints handled an update of an object of interest
HandledEndpointsUpdate ==
    /\ Handled
    /\ handled.kind = "Endpoints"
    /\ handled.ev.type = "update"
    /\ handled.ev.new.name \in Elems(handled.keys)

\* C14: an update of an Endpoints object of interest whose old and new
\* object have the same multiset of addresses and the same multiset of
\* (port name, port number) pairs, whatever the order of subsets, addresses
\* and ports, emits no change signal.
C14_EndpointsReorderSilent ==
    ( /\ HandledEndpointsUpdate
      /\ SameMultiset(AllAddresses(handled.ev.old.data),
                      AllAddresses(handled.ev.new.data))
      /\ SameMultiset(AllPorts(handled.ev.old.data),
                      AllPorts(handled.ev.new.data)) )
    => (~handled.fired /\ changes = handled.before)

C14_Witness ==
    /\ HandledEndpointsUpdate
    /\ Len(handled.ev.old.data.Subsets) = 1
    /\ Len(handled.ev.new.data.Subsets) = 2
    /\ AllAddresses(handled.ev.old.data) = <<IP1, IP2>>
    /\ AllAddresses(handled.ev.new.data) = <<IP2, IP1>>
    /\ AllPorts(handled.ev.old.data) # AllPorts(handled.ev.new.data)
    /\ SameMultiset(AllPorts(handled.ev.old.data), AllPorts(handled.ev.new.data))
    /\ ~handled.fired
    /\ changes = 0

\* C15: an update of an Endpoints object of interest whose multiset of
\* addresses or whose multiset of (port name, port number) pairs differs
\* between the old and the new object emits a change signal.
C15_EndpointsChangeSignals ==
    ( /\ HandledEndpointsUpdate
      /\ \/ ~SameMultiset(AllAddresses(handled.ev.old.data),
                          AllAddresses(handled.ev.new.data))
         \/ ~SameMultiset(AllPorts(handled.ev.old.data),
                          AllPorts(handled.ev.new.data)) )
    => (handled.fired /\ changes = 1)

\* C17: an accessor called with the empty namespace registers with the same
\* controller and returns the same value and error as the call that names
\* the namespace of the process.
C17_EmptyNamespaceIsDefault ==
    [][\A p \in Procs :
          ( /\ LearnStep(p) \/ RenderStep(p)
            /\ LastRef(p).ns = EmptyNamespace )
          => LET c == Call(learning, namespaces, api,
                           [LastRef(p) EXCEPT !.ns = DefaultNamespace])
             IN  /\ namespaces' = c.map
                 /\ ret'[p] = [val |-> c.val, err |-> c.err]]_vars

\* what is of interest in the namespace map a is of interest in b, in the
\* controller of the same namespace
Grows(a, b) ==
    \A n \in DOMAIN a :
        /\ n \in DOMAIN b
        /\ \A f \in {"ConfigMaps", "Secrets"} :
              \A name \in DOMAIN a[n][f] :
                  /\ name \in DOMAIN b[n][f]
                  /\ Elems(a[n][f][name]) \subseteq Elems(b[n][f][name])
        /\ \A f \in {"Services", "Endpoints"} :
              Elems(a[n][f]) \subseteq Elems(b[n][f])

HandledKeyedUpdate(kind) ==
    /\ Handled
    /\ handled.kind = kind
    /\ handled.ev.type = "update"
    /\ handled.ev.old.name \in DOMAIN handled.keys
    /\ handled.ev.new.name \in DOMAIN handled.keys

\* some key of interest is absent in the old object, absent in the new
\* object or has different values in the two
Material(interestingKeys, old, cur) ==
    \E i \in 1..Len(interestingKeys) :
        LET k == interestingKeys[i]
        IN  \/ k \notin DOMAIN old.data
            \/ k \notin DOMAIN cur.data
            \/ old.data[k] # cur.data[k]

\* C19: an update of a ConfigMap of interest calls triggerChange if and only
\* if some key of interest is absent in the old object, absent in the new
\* object or has different text in the two, a key with the empty value that
\* the new object no longer has included.
C19_ConfigMapMateriality ==
    HandledKeyedUpdate("ConfigMap")
        => (handled.fired <=>
               Material(handled.keys[handled.ev.new.name],
                        handled.ev.old, handled.ev.new))

\* C20: an update of a Secret of interest calls triggerChange if and only if
\* some key of interest is absent in the old object, absent in the new
\* object or has different bytes in the two.
C20_SecretMateriality ==
    HandledKeyedUpdate("Secret")
        => (handled.fired <=>
               Material(handled.keys[handled.ev.new.name],
                        handled.ev.old, handled.ev.new))

\* both keys are of interest and the update changes the second one only,
\* from the empty value to no value
C20_Witness ==
    /\ HandledKeyedUpdate("Secret")
    /\ handled.keys["m1"] = <<"k1", "k2">>
    /\ handled.ev.old.data = [k \in Keys |-> IF k = "k1" THEN <<"a">> ELSE <<>>]
    /\ handled.ev.new.data = [k \in {"k1"} |-> <<"a">>]
    /\ handled.fired

\* the Service informer has handled an update of a Service whose name is of
\* interest
HandledServiceUpdate ==
    /\ Handled
    /\ handled.kind = "Service"
    /\ handled.ev.type = "update"
    /\ handled.ev.old.name \in Elems(handled.keys)
    /\ handled.ev.new.name \in Elems(handled.keys)

\* C21: an update of a Service of interest calls triggerChange if and only
\* if the specifications of the old and the new object differ; an update
\* that changes the resource version alone calls nothing.
C21_ServiceMateriality ==
    HandledServiceUpdate
        => (handled.fired <=>
               handled.ev.old.data.ClusterIP # handled.ev.new.data.ClusterIP)

\* an update that bumps the resource version and leaves the specification
\* as it was has been handled without a signal
C21_Witness ==
    /\ HandledServiceUpdate
    /\ handled.ev.old.data.ClusterIP = handled.ev.new.data.ClusterIP
    /\ handled.ev.old.data.ResourceVersion # handled.ev.new.data.ResourceVersion
    /\ ~handled.fired
    /\ changes = 0

C23_LearnSurvivesMissingData ==
    \A p \in Procs :
        (pc[p] = "learn_done" /\ err[p] # ErrPanic)
            => /\ err[p] = Nil
               /\ \A i \in 1..Len(tmpl[p]) : InterestedIn(namespaces, tmpl[p][i])

\* C24: a rendering step returns the value and the error that the same
\* accessor gives when it reads the store of the namespace's informer in
\* place of the cluster.
C24_RenderReadsCache ==
    [][\A p \in Procs :
          RenderStep(p)
          => LET r == LastRef(p)
                 c == Call(FALSE, namespaces,
                           [api EXCEPT !.ConfigMaps = ConfigMapStore(r.ns)], r)
             IN  ret'[p] = [val |-> c.val, err |-> c.err]]_vars

\* C25: no step of a Render, be it the call or the execution of a
\* reference that succeeds or fails, changes the namespace map, an interest
\* set or the state of a monitor loop.
C25_RenderKeepsDependencies ==
    [][\A p \in Procs :
          (RenderStep(p) \/ \E T \in RenderTemplates : RenderCall(p, T))
          => UNCHANGED <<namespaces, loop, run>>]_vars

\* a Render of a reference to a namespace without a controller has failed,
\* and the namespace still has no controller and no loop
C25_Witness ==
    /\ pc[Caller] = "render_done"
    /\ LastRef(Caller).acc = "Service"
    /\ LastRef(Caller).ns = "n2"
    /\ err[Caller] = ErrNoNamespace
    /\ "n1" \in DOMAIN namespaces
    /\ "n2" \notin DOMAIN namespaces
    /\ \A kind \in Kinds : loop[<<"n2", kind>>] = "none"

\* the step of caller p makes a controller and starts its Run
Creates(p) ==
    \/ LearnStep(p) /\ Call(TRUE, namespaces, api, LastRef(p)).started
    \/ RenderStep(p) /\ Call(FALSE, namespaces, api, LastRef(p)).started

\* C26: a controller is made only by a caller that holds the write lock in
\* Learn, only for a namespace that has none, and its four loops, none of
\* which has been started before, are started by that step; the namespace
\* map changes only while the write lock is held.
C26_OneControllerPerNamespace ==
    [][/\ \A p \in Procs :
             Creates(p)
             => /\ pc[p] = "learn"
                /\ learnMutex.w
                /\ LastRef(p).ns \notin DOMAIN namespaces
                /\ LastRef(p).ns \in DOMAIN namespaces'
                /\ \A kind \in Kinds :
                      /\ loop[<<LastRef(p).ns, kind>>] = "none"
                      /\ loop'[<<LastRef(p).ns, kind>>] = "starting"
       /\ namespaces' # namespaces => learnMutex.w
       /\ \A inf \in Informers :
             (loop'[inf] = "starting" /\ loop[inf] # "starting")
                 => \E p \in Procs : Creates(p) /\ LastRef(p).ns = inf[1]]_vars

\* both callers have learned a template that reads namespace n1: the first
\* made the controller, the second found it
C26_Witness ==
    /\ pc["p1"] = "learn_done"
    /\ pc["p2"] = "learn_done"
    /\ LastRef("p1").ns = "n1"
    /\ LastRef("p2").ns = "n1"
    /\ err["p1"] = ErrPanic
    /\ err["p2"] # ErrPanic
    /\ "n1" \in DOMAIN namespaces
    /\ \A kind \in Kinds : loop[<<"n1", kind>>] = "starting"

\* C27: no informer hands an event to the Filter and OnUpdate of a monitor,
\* which read its interest set, while a Learn that writes the interest sets
\* of the same namespace holds the write lock.
C27_NoReadDuringLearn ==
    Handled
        => ~\E p \in Procs :
               /\ pc[p] = "learn"
               /\ learnMutex.w
               /\ \E i \in pos[p]..Len(tmpl[p]) : tmpl[p][i].ns = handled.n

\* C28: a Wait whose context is done returns with the signal that was
\* pending still in the queue.
C28_CancelledWaitKeepsSignal ==
    [][\A p \in Procs :
          (pc[p] = "wait" /\ pc'[p] = "wait_done" /\ ctx[p] /\ changes = 1)
          => changes' = 1]_vars

\* C29: the monitor of the controller of a namespace calls triggerChange
\* for no event of an object that lives in another namespace.
C29_EventsScopedToNamespace ==
    (Handled /\ handled.ev.new.ns # handled.n) => ~handled.fired

\* C30: after an event that called triggerChange a signal is pending,
\* whether or not a caller was blocked in Wait; a pending signal leaves the
\* queue only when a Wait returns through it; and a Wait that finds a
\* signal pending can return through it at once.
C30_NoLostWakeup ==
    /\ []((Handled /\ handled.fired) => changes = 1)
    /\ [][changes' < changes
            => \E p \in Procs : /\ pc[p] = "wait"
                                /\ pc'[p] = "wait_done"
                                /\ ret'[p].val = <<"signal">>]_vars
    /\ [](\A p \in Procs : (pc[p] = "wait" /\ changes = 1) => ENABLED WaitSignal(p))

\* a material event was handled while no caller was in Wait and no signal
\* was pending; the signal is in the queue
C30_Witness ==
    /\ Handled
    /\ handled.fired
    /\ handled.before = 0
    /\ pc[Waiter] = "idle"
    /\ changes = 1

\* C31: the step in which the goroutine of a Watcher whose stream returned
\* an error runs e.Close closes every registered Watcher and empties the
\* list, and the goroutine then holds that error, which is not nil, to
\* send; a value enters the reload channel only as that error, sent by
\* such a goroutine, or as nil, sent by a goroutine whose Watcher has a
\* resource with the name of the object it received.
C31_FailureClosesAndReports ==
    [][/\ \A w \in DOMAIN watcher :
             (watcher[w].routine.at = "failing" /\ watcher'[w].routine.at = "report")
             => /\ watchers' = <<>>
                /\ \A i \in Elems(watchers) : watcher'[i].closed
                /\ watcher'[w].routine.err = watcher[w].routine.err
                /\ watcher'[w].routine.err \in {ErrStream, ErrClosed}
       /\ (reload # NilChannel /\ Len(reload') > Len(reload))
             => LET v == reload'[Len(reload')]
                IN  /\ reload' = Append(reload, v)
                    /\ \E w \in DOMAIN watcher :
                          IF v = Nil
                          THEN /\ watcher[w].routine.at = "notify"
                               /\ watcher'[w].routine.at = "running"
                               /\ watcher[w].routine.obj \in Elems(watcher[w].resources)
                          ELSE /\ watcher[w].routine.at = "report"
                               /\ watcher'[w].routine.at = "exited"
                               /\ watcher[w].routine.err = v
       /\ \A w \in DOMAIN watcher :
             (watcher[w].routine.at = "report" /\ watcher'[w].routine.at = "exited"
                /\ reload # NilChannel)
             => reload' = Append(reload, watcher[w].routine.err)]_vars

\* the stream of one of two registered Watchers failed: both are closed,
\* the list is empty and the error is in the reload channel
C31_Witness ==
    /\ Len(watcher) = 2
    /\ watchers = <<>>
    /\ \A w \in DOMAIN watcher : watcher[w].closed
    /\ \E w \in DOMAIN watcher : watcher[w].routine.at = "exited"
    /\ \E w \in DOMAIN watcher : watcher[w].routine.at = "running"
    /\ reload = <<ErrStream>>

\* no name is twice in the resource list of a Watcher
NamesOnce == \A w \in DOMAIN watcher : NoDuplicates(watcher[w].resources)

\* C32: whatever the interleaving of the AddWatched calls, no two Watchers
\* of the Engine's list (each with its own watch subscription and its own
\* event goroutine) have the same kind and namespace, and no name is twice
\* in the resource list of a Watcher.
C32_OneWatcherPerPair ==
    /\ \A i, j \in DOMAIN watchers :
           i # j => \/ watcher[watchers[i]].kind # watcher[watchers[j]].kind
                    \/ watcher[watchers[i]].namespace # watcher[watchers[j]].namespace
    /\ NamesOnce

====
